---- MODULE Spec2Model ----
(***************************************************************************)
(* Grounding & Deduplication Engine of qagredo-local.                      *)
(*                                                                         *)
(*   utils/duplicate_detector.py    normalize_text, jaccard, is_duplicate, *)
(*                                  detect_duplicate_questions (union-find)*)
(*                                  filter_duplicates_from_new_questions   *)
(*   utils/question_generator.py    generate_questions and its validation  *)
(*   utils/hallucination_checker.py check_hallucination and its methods    *)
(*                                                                         *)
(* Strings are sequences of one-character strings.  Similarities and       *)
(* thresholds of the duplicate detector are percentages (0..100);          *)
(* confidences of the grounding verifier are thousandths (0..1000), the    *)
(* precision round(confidence, 3) keeps.                                   *)
(***************************************************************************)
EXTENDS Integers, Sequences, FiniteSets, TLC

VARIABLES
    \* ---- duplicate detector (one call of the public entry points) ----
    dpc,                \* "input" | "detected" | "reclustered" | "filtered"
    questions,          \* the question list handed to the detector
    similarity_threshold,
    exact_match,
    method,
    semAvail,           \* the sentence-embedding provider can be imported and loaded
    closePairs,         \* pairs of texts the embedding model rates as close
    clusters,           \* detect_duplicate_questions: the clusters dict, in insertion order
    unique_questions,   \* first element of the returned tuple
    duplicate_indices,  \* second element of the returned tuple
    again,              \* the result of clustering unique_questions once more
    split,              \* how many leading questions are "existing" for the filter
    filtered,           \* result of filter_duplicates_from_new_questions
    \* ---- generate_questions, for one document ----
    gpc,                \* "gen" | "validate" | "regenerate" | "done" | "skipped"
    num_questions,      \* question_generation.num_questions
    enable_validation,  \* question_generation.validation.enable_rejection
    max_regeneration_attempts,
    all_questions,
    generation_attempts,
    doc_questions,      \* the local `questions`; in the end the document's "questions"
    validated_questions,
    current_question,   \* _validate_and_regenerate_question: current_question
    attempt,            \* _validate_and_regenerate_question: the loop's attempt
    \* ---- check_hallucination, one call ----
    hpc,                \* "call" | "judge" | "done" | "raised"
    check_method,       \* the method argument
    answer,             \* the answer, as the sentences _split_into_sentences returns
    answer_blank,       \* `not answer or not answer.strip()`
    answer_admits,      \* the answer holds an uncertainty phrase ("i don't know", ...)
    judge_ready,        \* openai can be imported and set_llm_config has been called
    max_retries,        \* the judge configuration's max_retries
    judge_attempt,      \* _call_llm_judge: the loop's attempt
    judge_calls,        \* how often _call_llm_judge has been called
    judge_outcomes,     \* _call_llm_judge: per request sent, "verdict" or "failed"
    last_reply,         \* _call_llm_judge: the kind of reply the latest request
                        \* received, "none" when it raised or none was sent
    sleeps,             \* _call_llm_judge: the time.sleep calls, in units of retry_delay
    semantic_result,    \* _check_hybrid: the result of the semantic pass
    result,             \* the dict check_hallucination returns
    \* ---- the pipeline's model configuration ----
    cpc,                \* "loaded" | "configured"
    config,             \* the pipeline config: its "llm" and (optional) "judge" sections
    environ,            \* os.environ: VLLM_JUDGE_MODEL and VLLM_JUDGE_BASE_URL
    judge_config,       \* the module's global _judge_config
    judge_client,       \* the model and endpoint _call_llm_judge last sent a request to
    generator_client,   \* the model and endpoint the answer generator last sent a request to
    \* ---- evaluate_document_quality, one call ----
    qpc,                \* "input" | "evaluated"
    document,           \* the document record: its qa_pairs and stored overall_confidence
    thresholds,         \* the thresholds argument (overrides of DEFAULT_THRESHOLDS)
    report,             \* the dict evaluate_document_quality returns
    \* ---- summarize_documents, one call ----
    spc,                \* "input" | "summarized"
    reports,            \* the list of reports handed to summarize_documents
    summary,            \* the dict summarize_documents returns
    \* ---- grade_qa_results, one call ----
    bpc,                \* "grading" | "returned" | "exited"
    caller,             \* "script" (grade_qa_results.py) | "pipeline" (run_qa_pipeline.py)
    qa_results,         \* the documents of the batch, each the list of its question/answer pairs
    doc_index,          \* the document being graded
    pair_index,         \* grade_qa_results: how many pairs of the document are graded
    hallucination_checks, \* grade_qa_results: the checks of the document so far
    graded_results,     \* the graded documents the caller holds
    grading_warnings,   \* the documents the pipeline printed "[WARN] Could not grade" for
    \* ---- normalize_text, the similarities and is_duplicate on one pair ----
    ppc,                \* "input" | "compared"
    question_a,         \* the first question of the pair
    question_b,         \* the second question of the pair
    exact_arg,          \* the exact_match argument of is_duplicate
    compared,           \* what the functions return on the pair
    \* ---- the embedding models of one process ----
    kpc,                \* "running"
    embedding_calls,    \* number of calls made that use sentence embeddings
    model_cache,        \* calculate_semantic_similarity._model_cache: name -> instance
    loaded,             \* the model names SentenceTransformer was constructed for, in order
    model,              \* the instance the latest call encoded with (its place in loaded), 0: none
    \* ---- _split_into_sentences, one call ----
    tpc,                \* "input" | "split"
    input_text,         \* the text argument: a sequence of characters
    sentences_out       \* what _split_into_sentences returns: each character with its place in the text

\* the configuration of the duplicate detector
dcfg == <<similarity_threshold, method, semAvail, closePairs>>

dcall == <<dpc, questions, exact_match, clusters, unique_questions, duplicate_indices,
           again, split, filtered>>

gvars == <<gpc, num_questions, enable_validation, max_regeneration_attempts, all_questions,
           generation_attempts, doc_questions, validated_questions, current_question, attempt>>

hvars == <<hpc, check_method, answer, answer_blank, answer_admits, judge_ready, max_retries,
           judge_attempt, judge_calls, judge_outcomes, last_reply, sleeps, semantic_result,
           result>>

cvars == <<cpc, config, environ, judge_config, judge_client, generator_client>>

qvars == <<qpc, document, thresholds, report>>

svars == <<spc, reports, summary>>

bvars == <<bpc, caller, qa_results, doc_index, pair_index, hallucination_checks, graded_results, grading_warnings>>

pvars == <<ppc, question_a, question_b, exact_arg, compared>>

kvars == <<kpc, embedding_calls, model_cache, loaded, model>>

tvars == <<tpc, input_text, sentences_out>>

\* the components added after the first six
xvars == <<svars, bvars, pvars, kvars, tvars>>

vars == <<dcfg, dcall, gvars, hvars, cvars, qvars, xvars>>

-----------------------------------------------------------------------------
(* Generic helpers on sequences and sets.                                  *)

\* Body(value), with value computed once.  TLC computes the argument of an
\* operator and the definitions of a LET each time they are used; a bound
\* variable holds a computed value.
With(value, Body(_)) == CHOOSE r \in {Body(v) : v \in {value}} : TRUE

Range(s) == {s[i] : i \in 1..Len(s)}

\* the slice s[:n]
Prefix(s, n) == SubSeq(s, 1, IF n < Len(s) THEN n ELSE Len(s))

Min(S) == CHOOSE x \in S : \A y \in S : x <= y

RECURSIVE SeqsUpTo(_, _)
\* all sequences over S of length 0..n
SeqsUpTo(S, n) ==
    IF n = 0 THEN {<<>>}
    ELSE With(SeqsUpTo(S, n - 1), LAMBDA shorter :
            shorter \cup {Append(s, x) : s \in {t \in shorter : Len(t) = n - 1}, x \in S})

-----------------------------------------------------------------------------
(* Characters (str.lower, str.isalnum, str.isspace on the ASCII range).    *)

LowerLetters == {"a","b","c","d","e","f","g","h","i","j","k","l","m",
                 "n","o","p","q","r","s","t","u","v","w","x","y","z"}

UpperToLower == [c \in {"A","B","C","D","E","F","G","H","I","J","K","L","M",
                        "N","O","P","Q","R","S","T","U","V","W","X","Y","Z"} |->
    CASE c = "A" -> "a" [] c = "B" -> "b" [] c = "C" -> "c" [] c = "D" -> "d"
      [] c = "E" -> "e" [] c = "F" -> "f" [] c = "G" -> "g" [] c = "H" -> "h"
      [] c = "I" -> "i" [] c = "J" -> "j" [] c = "K" -> "k" [] c = "L" -> "l"
      [] c = "M" -> "m" [] c = "N" -> "n" [] c = "O" -> "o" [] c = "P" -> "p"
      [] c = "Q" -> "q" [] c = "R" -> "r" [] c = "S" -> "s" [] c = "T" -> "t"
      [] c = "U" -> "u" [] c = "V" -> "v" [] c = "W" -> "w" [] c = "X" -> "x"
      [] c = "Y" -> "y" [] c = "Z" -> "z"]

Digits == {"0","1","2","3","4","5","6","7","8","9"}

isalnum(c) == c \in LowerLetters \cup DOMAIN UpperToLower \cup Digits

isspace(c) == c \in {" ", "\t", "\n", "\r"}

lower(s) == [i \in 1..Len(s) |-> IF s[i] \in DOMAIN UpperToLower THEN UpperToLower[s[i]] ELSE s[i]]

StartsWith(s, pat) == Len(pat) <= Len(s) /\ SubSeq(s, 1, Len(pat)) = pat

RECURSIVE replace(_, _, _)
\* str.replace(old, new): every non-overlapping occurrence, left to right
replace(s, old, new) ==
    IF s = <<>> THEN <<>>
    ELSE IF StartsWith(s, old)
         THEN new \o replace(SubSeq(s, Len(old) + 1, Len(s)), old, new)
         ELSE <<Head(s)>> \o replace(Tail(s), old, new)

RECURSIVE str_split(_, _)
\* str.split(): the maximal runs of non-whitespace characters, in order
\* (cur is the run being read)
str_split(s, cur) ==
    IF s = <<>> THEN (IF cur = <<>> THEN <<>> ELSE <<cur>>)
    ELSE IF isspace(Head(s))
         THEN (IF cur = <<>> THEN <<>> ELSE <<cur>>) \o str_split(Tail(s), <<>>)
         ELSE str_split(Tail(s), Append(cur, Head(s)))

RECURSIVE join(_)
\* " ".join(parts)
join(parts) ==
    IF parts = <<>> THEN <<>>
    ELSE IF Len(parts) = 1 THEN parts[1]
    ELSE parts[1] \o <<" ">> \o join(Tail(parts))

\* the contractions dict of normalize_text, in its insertion order
contractions == <<
    << <<"'","s">>,     <<" ","i","s">> >>,
    << <<"'","r","e">>, <<" ","a","r","e">> >>,
    << <<"'","v","e">>, <<" ","h","a","v","e">> >>,
    << <<"'","l","l">>, <<" ","w","i","l","l">> >>,
    << <<"'","d">>,     <<" ","w","o","u","l","d">> >>,
    << <<"'","m">>,     <<" ","a","m">> >>,
    << <<"n","'","t">>, <<" ","n","o","t">> >>,
    << <<"'","t">>,     <<" ","n","o","t">> >> >>

RECURSIVE expand(_, _)
\* the loop over contractions.items(), from entry k on
expand(s, k) ==
    IF k > Len(contractions) THEN s
    ELSE With(replace(s, contractions[k][1], contractions[k][2]), LAMBDA replaced :
            expand(replaced, k + 1))

normalize_text(text) ==
    With(lower(text), LAMBDA lowered :
    With(expand(lowered, 1), LAMBDA expanded :
    With(join(str_split(expanded, <<>>)), LAMBDA collapsed :
        SelectSeq(collapsed, LAMBDA c : isalnum(c) \/ isspace(c)))))

-----------------------------------------------------------------------------
(* The texts the questions are drawn from.                                 *)

Q_WhatIsX   == <<"W","h","a","t"," ","i","s"," ","X","?">>
Q_whatisx   == <<"w","h","a","t"," ","i","s"," ","x">>
Q_Unrelated == <<"U","n","r","e","l","a","t","e","d","?">>
Q_whatisxy  == <<"w","h","a","t"," ","i","s"," ","x"," ","y">>
Q_isxy      == <<"i","s"," ","x"," ","y","?">>

QuestionPool == {Q_WhatIsX, Q_whatisx, Q_Unrelated, Q_whatisxy, Q_isxy}

\* the questions handed to the duplicate detector: two that normalize equally,
\* and a chain of token overlaps 3/4, 3/4 whose ends overlap by 2/4
DetectorPool == {Q_WhatIsX, Q_whatisx, Q_whatisxy, Q_isxy}

\* a question the validation step has closed with a question mark
WithMark(q) == IF q # <<>> /\ q[Len(q)] # "?" THEN Append(q, "?") ELSE q

Q_WhatsX    == <<"W","h","a","t","'","s"," ","X","?">>
T_x_comma_y == <<"x"," ",","," ","y">>
T_x__y      == <<"x"," "," ","y">>
T_x_y       == <<"x"," ","y">>
T_y_x       == <<"y"," ","x">>
T_mark      == <<"?">>
T_empty     == <<>>

\* the texts a pair of questions is drawn from: three spellings of one
\* question, a question that shares three of its four words, two texts that
\* differ by a comma standing alone, two texts of the same words in another
\* order, a text without a word and the empty text
PairTexts ==
    {Q_WhatIsX, Q_whatisx, Q_WhatsX, Q_whatisxy, T_x_comma_y, T_x__y, T_x_y, T_y_x,
     T_mark, T_empty}

Texts == QuestionPool \cup {WithMark(q) : q \in QuestionPool} \cup PairTexts

\* normalize_text and the token set of the normalized text, tabulated on Texts
NormTable == [t \in Texts |-> normalize_text(t)]

normalized(text) == IF text \in Texts THEN NormTable[text] ELSE normalize_text(text)

WordTable == [t \in Texts |-> Range(str_split(NormTable[t], <<>>))]

\* set(normalize_text(text).split())
words(text) == IF text \in Texts THEN WordTable[text] ELSE Range(str_split(normalize_text(text), <<>>))

-----------------------------------------------------------------------------
(* Similarity of two questions.  A similarity is a fraction num/den, so    *)
(* that `sim >= threshold` is exact; thresholds are percentages.           *)

Frac(n, d) == [num |-> n, den |-> d]

\* sim >= similarity_threshold, with the threshold given in percent
AtLeast(sim, percent) == sim.num * 100 >= percent * sim.den

\* the overlap measured against the first text's tokens only
jaccard_over_first(text1, text2) ==
    With(words(text1), LAMBDA words1 :
    With(words(text2), LAMBDA words2 :
        IF words1 = {} /\ words2 = {} THEN Frac(1, 1)
        ELSE IF words1 = {} \/ words2 = {} THEN Frac(0, 1)
        ELSE Frac(Cardinality(words1 \cap words2), Cardinality(words1))))

calculate_jaccard_similarity(text1, text2) ==
    With(words(text1), LAMBDA words1 :
    With(words(text2), LAMBDA words2 :
    With(Cardinality(words1 \cap words2), LAMBDA intersection :
    With(Cardinality(words1 \cup words2), LAMBDA union_size :
        IF words1 = {} /\ words2 = {} THEN Frac(1, 1)
        ELSE IF words1 = {} \/ words2 = {} THEN Frac(0, 1)
        ELSE IF union_size > 0 THEN Frac(intersection, union_size) ELSE Frac(0, 1)))))

\* What the embedding model answers: the cosine similarity (in percent) of the
\* embeddings of two texts.  The model is outside the repository: it rates a
\* text as identical to itself, the pairs in closePairs as close and every
\* other pair as far apart.  It is a function of the unordered pair.
SemLevel == [close |-> 90, far |-> 30]

cosine_similarity(text1, text2) ==
    IF text1 = text2 THEN 100
    ELSE IF {text1, text2} \in closePairs THEN SemLevel.close ELSE SemLevel.far

\* -1.0 when the provider cannot be imported or loaded
calculate_semantic_similarity(text1, text2) ==
    IF ~semAvail THEN Frac(-1, 1)
    ELSE LET similarity == cosine_similarity(text1, text2)
         IN Frac(IF similarity > 0 THEN similarity ELSE 0, 100)

\* is_duplicate with the sentinel compared against the threshold
is_duplicate_sentinel_compared(question1, question2, threshold, exact, meth) ==
    IF exact /\ normalized(question1) = normalized(question2) THEN TRUE
    ELSE IF meth \in {"semantic", "both"}
         THEN With(calculate_semantic_similarity(question1, question2), LAMBDA semantic_sim :
                 IF meth = "both"
                 THEN \/ AtLeast(semantic_sim, threshold)
                      \/ AtLeast(calculate_jaccard_similarity(question1, question2), threshold)
                 ELSE AtLeast(semantic_sim, threshold))
         ELSE AtLeast(calculate_jaccard_similarity(question1, question2), threshold)

is_duplicate(question1, question2, threshold, exact, meth) ==
    IF exact /\ normalized(question1) = normalized(question2) THEN TRUE
    ELSE IF meth \in {"semantic", "both"}
              /\ calculate_semantic_similarity(question1, question2).num >= 0
         THEN With(calculate_semantic_similarity(question1, question2), LAMBDA semantic_sim :
                 IF meth = "both"
                 THEN \/ AtLeast(semantic_sim, threshold)
                      \/ AtLeast(calculate_jaccard_similarity(question1, question2), threshold)
                 ELSE AtLeast(semantic_sim, threshold))
         ELSE \* the sentinel with "semantic" or "both", and every other method
              AtLeast(calculate_jaccard_similarity(question1, question2), threshold)

-----------------------------------------------------------------------------
(* detect_duplicate_questions: union-find over the indices 0..n-1.         *)
(* Question i of the Python list is qs[i + 1].                             *)

RECURSIVE find_root(_, _)
find_root(parent, x) == IF parent[x] = x THEN x ELSE find_root(parent, parent[x])

RECURSIVE find_path(_, _)
\* the nodes find(x) visits before the root
find_path(parent, x) == IF parent[x] = x THEN {} ELSE {x} \cup find_path(parent, parent[x])

\* find(x) with its path compression: the root, and parent afterwards
find(parent, x) ==
    With(find_root(parent, x), LAMBDA r :
    With(find_path(parent, x), LAMBDA path :
        [root   |-> r,
         parent |-> [k \in DOMAIN parent |-> IF k \in path THEN r ELSE parent[k]]]))

union(parent, x, y) ==
    With(find(parent, x), LAMBDA fx :
    With(find(fx.parent, y), LAMBDA fy :
        IF fx.root # fy.root
        THEN [fy.parent EXCEPT ![fy.root] = fx.root]
        ELSE fy.parent))

RECURSIVE compare_pairs_shifted(_, _, _, _, _, _, _)
\* compare_pairs reading questions[i - 1] and questions[j - 1] (Python's index -1 is
\* the last element) where the code reads questions[i] and questions[j]
compare_pairs_shifted(parent, qs, threshold, exact, meth, i, j) ==
    IF i >= Len(qs) THEN parent
    ELSE IF j >= Len(qs) THEN compare_pairs_shifted(parent, qs, threshold, exact, meth, i + 1, i + 2)
    ELSE With(IF is_duplicate(qs[IF i = 0 THEN Len(qs) ELSE i], qs[j], threshold, exact, meth)
              THEN union(parent, i, j) ELSE parent,
              LAMBDA merged : compare_pairs_shifted(merged, qs, threshold, exact, meth, i, j + 1))

RECURSIVE compare_pairs(_, _, _, _, _, _, _)
\* the nested loops `for i ... for j in range(i + 1, n)`, from the pair (i, j) on
compare_pairs(parent, qs, threshold, exact, meth, i, j) ==
    IF i >= Len(qs) THEN parent
    ELSE IF j >= Len(qs) THEN compare_pairs(parent, qs, threshold, exact, meth, i + 1, i + 2)
    ELSE With(IF is_duplicate(qs[i + 1], qs[j + 1], threshold, exact, meth)
              THEN union(parent, i, j) ELSE parent,
              LAMBDA merged : compare_pairs(merged, qs, threshold, exact, meth, i, j + 1))

\* clusters.setdefault(root, []).append(idx): the dict as the sequence of its
\* (key, value) entries in insertion order
setdefault_append(cl, root, idx) ==
    IF \E k \in 1..Len(cl) : cl[k].root = root
    THEN [k \in 1..Len(cl) |->
            IF cl[k].root = root THEN [cl[k] EXCEPT !.members = Append(@, idx)] ELSE cl[k]]
    ELSE Append(cl, [root |-> root, members |-> <<idx>>])

RECURSIVE build_clusters(_, _, _, _)
\* `for idx in range(n): root = find(idx); ...`, from idx on
build_clusters(parent, cl, idx, n) ==
    IF idx >= n THEN cl
    ELSE With(find(parent, idx), LAMBDA f :
         With(setdefault_append(cl, f.root, idx), LAMBDA added :
            build_clusters(f.parent, added, idx + 1, n)))

RECURSIVE insert_sorted(_, _)
insert_sorted(s, x) ==
    IF s = <<>> THEN <<x>>
    ELSE IF x <= Head(s) THEN <<x>> \o s
    ELSE <<Head(s)>> \o insert_sorted(Tail(s), x)

RECURSIVE sort_list(_)
\* list.sort() of a list of integers (repetitions kept)
sort_list(s) ==
    IF s = <<>> THEN <<>>
    ELSE With(sort_list(Tail(s)), LAMBDA rest : insert_sorted(rest, Head(s)))

\* representative taking cluster_indices[-1]
representative_last(qs, cluster_indices) ==
    qs[sort_list(cluster_indices)[Len(cluster_indices)] + 1]

\* the representative a cluster contributes: questions[cluster_indices[0]] after the sort
representative(qs, cluster_indices) == qs[sort_list(cluster_indices)[1] + 1]

\* cluster_duplicates extending by the whole cluster
cluster_duplicates_all(cluster_indices) == sort_list(cluster_indices)

\* what a cluster adds to duplicate_indices: cluster_indices[1:] after the sort
cluster_duplicates(cluster_indices) == Tail(sort_list(cluster_indices))

RECURSIVE collect(_, _, _, _)
\* `for cluster_indices in clusters.values()`, from entry k on
collect(qs, cl, k, acc) ==
    IF k > Len(cl) THEN acc
    ELSE With([unique |-> Append(acc.unique, representative(qs, cl[k].members)),
               dups   |-> acc.dups \o cluster_duplicates(cl[k].members)],
              LAMBDA added : collect(qs, cl, k + 1, added))

detect_duplicate_questions(qs, threshold, exact, meth) ==
    IF Len(qs) <= 1
    THEN [unique |-> qs, dups |-> <<>>,
          clusters |-> [k \in 1..Len(qs) |-> [root |-> k - 1, members |-> <<k - 1>>]]]
    ELSE With(compare_pairs([x \in 0..(Len(qs) - 1) |-> x], qs, threshold, exact, meth, 0, 1),
              LAMBDA parent :
         With(build_clusters(parent, <<>>, 0, Len(qs)), LAMBDA cl :
         With(collect(qs, cl, 1, [unique |-> <<>>, dups |-> <<>>]), LAMBDA out :
            [unique |-> out.unique, dups |-> sort_list(out.dups), clusters |-> cl])))

\* the filter clustering the new questions alone, then dropping those whose
\* normalized form is an existing one
filter_without_existing(existing_questions, new_questions, threshold, meth) ==
    IF existing_questions = <<>>
    THEN detect_duplicate_questions(new_questions, threshold, TRUE, meth).unique
    ELSE IF new_questions = <<>> THEN <<>>
    ELSE With(detect_duplicate_questions(new_questions, threshold, TRUE, meth).unique,
              LAMBDA unique_new :
         With({normalized(q) : q \in Range(existing_questions)}, LAMBDA existing_set :
            SelectSeq(unique_new, LAMBDA q : normalized(q) \notin existing_set)))

\* filter_duplicates_from_new_questions always clusters with exact_match=True
filter_duplicates_from_new_questions(existing_questions, new_questions, threshold, meth) ==
    IF existing_questions = <<>>
    THEN detect_duplicate_questions(new_questions, threshold, TRUE, meth).unique
    ELSE IF new_questions = <<>> THEN <<>>
    ELSE With(existing_questions \o new_questions, LAMBDA combined :
         With(detect_duplicate_questions(combined, threshold, TRUE, meth).unique,
              LAMBDA unique_combined :
         With({normalized(q) : q \in Range(existing_questions)}, LAMBDA existing_set :
            SelectSeq(unique_combined, LAMBDA q : normalized(q) \notin existing_set))))

-----------------------------------------------------------------------------
(* The inputs of the duplicate detector.                                   *)

MaxQuestions == 3

Thresholds == {60, 85}

Methods == {"exact", "jaccard", "semantic", "both"}

\* the unordered pairs of distinct texts of a list
PairsOf(qs) == {{a, b} : a, b \in Range(qs)} \ {{a} : a \in Range(qs)}

NoResult == [unique |-> <<>>, dups |-> <<>>]

\* no call of the duplicate detector's entry points is modelled
DedupIdle ==
    /\ dpc = "idle" /\ questions = <<>> /\ exact_match = TRUE
    /\ clusters = <<>> /\ unique_questions = <<>> /\ duplicate_indices = <<>>
    /\ again = NoResult /\ split = 0 /\ filtered = <<>>

\* no run of generate_questions is modelled
GenIdle ==
    /\ gpc = "idle" /\ num_questions = 0 /\ enable_validation = FALSE
    /\ max_regeneration_attempts = 0 /\ all_questions = <<>> /\ generation_attempts = 0
    /\ doc_questions = <<>> /\ validated_questions = <<>> /\ current_question = <<>>
    /\ attempt = 0

NoGrounding == [method |-> "(none)"]

\* no call of check_hallucination is modelled
GroundIdle ==
    /\ hpc = "idle" /\ check_method = "(none)" /\ answer = <<>> /\ answer_blank = TRUE
    /\ answer_admits = FALSE /\ judge_ready = FALSE /\ max_retries = 0 /\ judge_attempt = 0
    /\ judge_calls = 0 /\ judge_outcomes = <<>> /\ last_reply = "none" /\ sleeps = <<>>
    /\ semantic_result = NoGrounding /\ result = NoGrounding

NoClient == [model |-> "(none)", base_url |-> "(none)"]

\* no configuration of the pipeline's models is modelled
ConfigIdle ==
    /\ cpc = "idle" /\ config = [llm |-> <<>>] /\ environ = <<>>
    /\ judge_config = <<>> /\ judge_client = NoClient /\ generator_client = NoClient

NoReport == [quality_band |-> "(none)"]

\* no call of evaluate_document_quality is modelled
QualityIdle ==
    /\ qpc = "idle" /\ document = [qa_pairs |-> <<>>] /\ thresholds = <<>>
    /\ report = NoReport

\* no call of summarize_documents is modelled
SummaryIdle ==
    /\ spc = "idle"
    /\ reports = <<>>
    /\ summary = [total_documents |-> 0]

\* no call of grade_qa_results is modelled
BatchIdle ==
    /\ bpc = "idle"
    /\ caller = "(none)"
    /\ qa_results = <<>>
    /\ doc_index = 0
    /\ pair_index = 0
    /\ hallucination_checks = <<>>
    /\ graded_results = <<>>
    /\ grading_warnings = <<>>

\* no comparison of a pair of questions is modelled
PairIdle ==
    /\ ppc = "idle"
    /\ question_a = <<>>
    /\ question_b = <<>>
    /\ exact_arg = TRUE
    /\ compared = [duplicate |-> FALSE]

\* no use of an embedding model is modelled
CacheIdle ==
    /\ kpc = "idle"
    /\ embedding_calls = 0
    /\ model_cache = <<>>
    /\ loaded = <<>>
    /\ model = 0

\* no call of _split_into_sentences is modelled
SplitIdle ==
    /\ tpc = "idle"
    /\ input_text = <<>>
    /\ sentences_out = <<>>

MoreIdle == SummaryIdle /\ BatchIdle /\ PairIdle /\ CacheIdle /\ SplitIdle

InitDedup ==
    /\ dpc = "input"
    /\ questions \in SeqsUpTo(DetectorPool, MaxQuestions)
    /\ similarity_threshold \in Thresholds
    /\ exact_match \in BOOLEAN
    /\ method \in Methods
    /\ \/ /\ method \in {"semantic", "both"}
          /\ semAvail = TRUE
          /\ closePairs \in SUBSET PairsOf(questions)
       \/ /\ semAvail = FALSE
          /\ closePairs = {}
    /\ clusters = <<>>
    /\ unique_questions = <<>>
    /\ duplicate_indices = <<>>
    /\ again = NoResult
    /\ split = 0
    /\ filtered = <<>>
    /\ GenIdle
    /\ GroundIdle
    /\ ConfigIdle
    /\ QualityIdle
    /\ MoreIdle

\* a call detect_duplicate_questions(questions, similarity_threshold, exact_match, method)
Detect ==
    /\ dpc = "input"
    /\ \E r \in {detect_duplicate_questions(questions, similarity_threshold, exact_match, method)} :
          /\ clusters' = r.clusters
          /\ unique_questions' = r.unique
          /\ duplicate_indices' = r.dups
    /\ dpc' = "detected"
    /\ UNCHANGED <<questions, exact_match, again, split, filtered, dcfg, gvars, hvars, cvars, qvars, xvars>>

\* a second call, on the representatives the first call returned
Recluster ==
    /\ dpc = "detected"
    /\ \E r \in {detect_duplicate_questions(unique_questions, similarity_threshold, exact_match, method)} :
          again' = [unique |-> r.unique, dups |-> r.dups]
    /\ dpc' = "reclustered"
    /\ UNCHANGED <<questions, exact_match, clusters, unique_questions, duplicate_indices,
                   split, filtered, dcfg, gvars, hvars, cvars, qvars, xvars>>

\* a call filter_duplicates_from_new_questions(existing, new, similarity_threshold, method),
\* with the first k questions as existing and the others as new
Filter ==
    /\ dpc = "input"
    /\ \E k \in 0..Len(questions) :
          /\ split' = k
          /\ filtered' = filter_duplicates_from_new_questions(
                            SubSeq(questions, 1, k), SubSeq(questions, k + 1, Len(questions)),
                            similarity_threshold, method)
    /\ dpc' = "filtered"
    /\ UNCHANGED <<questions, exact_match, clusters, unique_questions, duplicate_indices,
                   again, dcfg, gvars, hvars, cvars, qvars, xvars>>

NextDedup == Detect \/ Recluster \/ Filter

SpecDedup == InitDedup /\ [][NextDedup]_vars

-----------------------------------------------------------------------------
(* generate_questions for one document with a non-empty text.  The         *)
(* generator model, and the grounding check of a question, are outside     *)
(* the repository: what they answer is chosen by the environment.          *)

max_generation_attempts == 5

MaxNumQuestions == 2

\* how many questions a reply of the generator model holds at most
MaxReply == 2

MaxRegenerations == 2

\* pairs of texts the embedding model may rate as close
GenClosePairs == {{Q_whatisxy, Q_Unrelated}}

InitGen ==
    /\ gpc = "gen"
    /\ num_questions \in 1..MaxNumQuestions
    /\ enable_validation \in BOOLEAN
    /\ max_regeneration_attempts \in 0..MaxRegenerations
    /\ all_questions = <<>>
    /\ generation_attempts = 0
    /\ doc_questions = <<>>
    /\ validated_questions = <<>>
    /\ current_question = <<>>
    /\ attempt = 0
    /\ similarity_threshold \in Thresholds
    /\ method \in {"jaccard", "semantic"}
    /\ semAvail = (method = "semantic")
    /\ closePairs \in (IF semAvail THEN SUBSET GenClosePairs ELSE {{}})
    /\ DedupIdle
    /\ GroundIdle
    /\ ConfigIdle
    /\ QualityIdle
    /\ MoreIdle

\* questions[:num_questions] if len(questions) >= num_questions else questions
parse_questions(lines, n) == IF Len(lines) >= n THEN Prefix(lines, n) ELSE lines

\* one iteration of the generation loop; the reply of the model is `lines`
GenRound ==
    /\ gpc = "gen"
    /\ Len(all_questions) < num_questions
    /\ generation_attempts < max_generation_attempts
    /\ generation_attempts' = generation_attempts + 1
    /\ \E lines \in SeqsUpTo(QuestionPool, MaxReply) :
          \E new_questions \in {parse_questions(lines, (num_questions - Len(all_questions)) + 2)} :
             all_questions' = all_questions \o
                 filter_duplicates_from_new_questions(all_questions, new_questions,
                                                      similarity_threshold, method)
    /\ UNCHANGED <<gpc, num_questions, enable_validation, max_regeneration_attempts,
                   doc_questions, validated_questions, current_question, attempt, dcfg, dcall, hvars, cvars, qvars, xvars>>

\* the validation loop, once question has been settled as final_question
Validated(final_question) ==
    /\ validated_questions' = Append(validated_questions, final_question)
    /\ IF Len(validated_questions) + 1 = Len(doc_questions)
       THEN gpc' = "done" /\ doc_questions' = Append(validated_questions, final_question)
       ELSE gpc' = "validate" /\ UNCHANGED doc_questions

\* the generation loop ends: questions = all_questions[:num_questions]
GenExit ==
    /\ gpc = "gen"
    /\ ~(Len(all_questions) < num_questions /\ generation_attempts < max_generation_attempts)
    /\ doc_questions' = Prefix(all_questions, num_questions)
    /\ gpc' = IF enable_validation /\ all_questions # <<>> THEN "validate" ELSE "done"
    /\ UNCHANGED <<num_questions, enable_validation, max_regeneration_attempts, all_questions,
                   generation_attempts, validated_questions, current_question, attempt,
                   dcfg, dcall, hvars, cvars, qvars, xvars>>

\* _validate_and_regenerate_question for the next question: the first check;
\* `passed` is `is_grounded and confidence >= min_confidence`
ValidateQuestion ==
    /\ gpc = "validate"
    /\ \E passed \in BOOLEAN :
          LET question == doc_questions[Len(validated_questions) + 1]
          IN IF passed \/ max_regeneration_attempts = 0
             THEN Validated(question) /\ UNCHANGED <<current_question, attempt>>
             ELSE /\ gpc' = "regenerate"
                  /\ current_question' = question
                  /\ attempt' = 1
                  /\ UNCHANGED <<doc_questions, validated_questions>>
    /\ UNCHANGED <<num_questions, enable_validation, max_regeneration_attempts, all_questions,
                   generation_attempts, dcfg, dcall, hvars, cvars, qvars, xvars>>

\* one iteration of the regeneration loop; `regenerated` is the stripped reply
Regenerate ==
    /\ gpc = "regenerate"
    /\ \E regenerated \in QuestionPool \cup {<<>>}, passed \in BOOLEAN :
          \E current \in {WithMark(IF regenerated # <<>> THEN regenerated ELSE current_question)} :
             IF passed \/ attempt = max_regeneration_attempts
             THEN Validated(current) /\ current_question' = <<>> /\ attempt' = 0
             ELSE /\ current_question' = current
                  /\ attempt' = attempt + 1
                  /\ UNCHANGED <<gpc, doc_questions, validated_questions>>
    /\ UNCHANGED <<num_questions, enable_validation, max_regeneration_attempts, all_questions,
                   generation_attempts, dcfg, dcall, hvars, cvars, qvars, xvars>>

\* a call of the generator model or of the grounding check raises: the
\* `except Exception` of generate_questions skips the document
GenFail ==
    /\ gpc \in {"gen", "validate", "regenerate"}
    /\ gpc = "gen" => (Len(all_questions) < num_questions
                       /\ generation_attempts < max_generation_attempts)
    /\ gpc' = "skipped"
    /\ UNCHANGED <<num_questions, enable_validation, max_regeneration_attempts, all_questions,
                   generation_attempts, doc_questions, validated_questions, current_question,
                   attempt, dcfg, dcall, hvars, cvars, qvars, xvars>>

NextGen == GenRound \/ GenExit \/ ValidateQuestion \/ Regenerate \/ GenFail

SpecGen == InitGen /\ [][NextGen]_vars

-----------------------------------------------------------------------------
(* check_hallucination.  A sentence of the answer is what the checker      *)
(* reads of it: whether it holds an "insufficient information" phrase, how *)
(* many key phrases _extract_key_phrases finds and how many of them occur  *)
(* in the document, whether _is_generic_statement matches, and the highest *)
(* cosine similarity (percent) to a chunk of the document.  Confidences    *)
(* are thousandths.  A result dict is a record whose fields are its keys.  *)

MaxSentences == 3

\* sentences as the keyword method reads them (no embedding is computed)
\* (a feature the code does not compute for a sentence stays at its default:
\* no key phrases are extracted from an admission, and _is_generic_statement
\* is only asked when key phrases exist and none is found)
LexicalSentences ==
    {x \in [insufficient : BOOLEAN, key_phrases : 0..1, found_phrases : 0..1,
            generic : BOOLEAN, max_similarity : {0}] :
        /\ x.found_phrases <= x.key_phrases
        /\ x.insufficient => x.key_phrases = 0
        /\ x.generic => (x.key_phrases > 0 /\ x.found_phrases = 0)}

\* sentences as the semantic method reads them
SemanticSentences ==
    [insufficient : {FALSE}, key_phrases : {0}, found_phrases : {0},
     generic : BOOLEAN, max_similarity : {49, 50}]

\* is_grounded needs confidence >= 0.7
GroundedConfidence == 700

\* the boost for an uncertainty admission
AdmissionBoost == 200

\* _check_semantic_based: threshold = 0.5
SimilarityThreshold == 50

\* round(x, 3) of x = num/den thousandths: to the nearest, ties to even
round3(x) ==
    With(x.num \div x.den, LAMBDA q :
    With(x.num % x.den, LAMBDA r :
        IF 2 * r > x.den THEN q + 1
        ELSE IF 2 * r < x.den THEN q
        ELSE IF q % 2 = 0 THEN q ELSE q + 1))

\* len(grounded) / total if total else 0.0, in thousandths
ratio(grounded_count, total) ==
    IF total = 0 THEN Frac(0, 1) ELSE Frac(1000 * grounded_count, total)

\* min(confidence + 0.2, 1.0)
boost(confidence) ==
    Frac(IF confidence.num + AdmissionBoost * confidence.den < 1000 * confidence.den
         THEN confidence.num + AdmissionBoost * confidence.den
         ELSE 1000 * confidence.den,
         confidence.den)

\* the keyword method's verdict on one sentence
keyword_grounded(sentence) ==
    \/ sentence.insufficient
    \/ sentence.found_phrases > 0
    \/ sentence.key_phrases = 0
    \/ sentence.generic

\* confidence >= 0.7 and len(ungrounded_sentences) == 0, on the unrounded confidence
grounded_verdict_by_confidence(confidence, ungrounded_count) ==
    confidence.num >= GroundedConfidence * confidence.den

grounded_verdict(confidence, ungrounded_count) ==
    confidence.num >= GroundedConfidence * confidence.den /\ ungrounded_count = 0

check_keyword_based(sentences, admits) ==
    With(SelectSeq(sentences, keyword_grounded), LAMBDA grounded_sentences :
    With(SelectSeq(sentences, LAMBDA x : ~keyword_grounded(x)), LAMBDA ungrounded_sentences :
    With(Len(grounded_sentences) + Len(ungrounded_sentences), LAMBDA total_sentences :
    With(IF admits THEN boost(ratio(Len(grounded_sentences), total_sentences))
         ELSE ratio(Len(grounded_sentences), total_sentences), LAMBDA confidence :
        [is_grounded          |-> grounded_verdict(confidence, Len(ungrounded_sentences)),
         confidence           |-> round3(confidence),
         issues               |-> [k \in 1..Len(ungrounded_sentences) |-> "Potential hallucination"],
         grounded_sentences   |-> grounded_sentences,
         ungrounded_sentences |-> ungrounded_sentences,
         method               |-> "keyword",
         total_sentences      |-> total_sentences,
         grounded_count       |-> Len(grounded_sentences),
         ungrounded_count     |-> Len(ungrounded_sentences)]))))

\* the semantic method's verdict on one sentence
semantic_grounded(sentence) ==
    sentence.max_similarity >= SimilarityThreshold \/ sentence.generic

check_semantic_based(sentences, admits) ==
    IF ~semAvail
    THEN [method |-> "keyword (semantic unavailable)", note |-> "using keyword-based method"]
            @@ check_keyword_based(sentences, admits)
    ELSE IF sentences = <<>>
    THEN [is_grounded          |-> FALSE,
          confidence           |-> 0,
          issues               |-> <<"Answer is empty">>,
          grounded_sentences   |-> <<>>,
          ungrounded_sentences |-> <<>>,
          method               |-> "semantic"]
    ELSE
    With(SelectSeq(sentences, semantic_grounded), LAMBDA grounded_sentences :
    With(SelectSeq(sentences, LAMBDA x : ~semantic_grounded(x)), LAMBDA ungrounded_sentences :
    With(Len(grounded_sentences) + Len(ungrounded_sentences), LAMBDA total_sentences :
    With(ratio(Len(grounded_sentences), total_sentences), LAMBDA confidence :
        [is_grounded          |-> grounded_verdict(confidence, Len(ungrounded_sentences)),
         confidence           |-> round3(confidence),
         issues               |-> [k \in 1..Len(ungrounded_sentences) |-> "Low similarity"],
         grounded_sentences   |-> grounded_sentences,
         ungrounded_sentences |-> ungrounded_sentences,
         method               |-> "semantic",
         total_sentences      |-> total_sentences,
         grounded_count       |-> Len(grounded_sentences),
         ungrounded_count     |-> Len(ungrounded_sentences)]))))

-----------------------------------------------------------------------------
(* The judge.  A reply of the judge model is either a JSON object (its     *)
(* data, a record whose fields are the object's keys), a reply on which    *)
(* the JSON path of _parse_llm_verdict raises something other than a       *)
(* ValueError, or free text, read by what the fallback looks for in it.    *)

JudgeConfidences == {-200, 400, 700, 1500}

JsonVerdicts == {"SUPPORTED", "supported", "NOT_SUPPORTED"}

JsonReasons == {"", "why"}

\* the objects the judge can reply with: every key may be missing
JsonData ==
    UNION {
        {<<>>},
        [verdict : JsonVerdicts],
        [confidence : JudgeConfidences],
        [reason : JsonReasons],
        [verdict : JsonVerdicts, confidence : JudgeConfidences],
        [verdict : JsonVerdicts, reason : JsonReasons],
        [confidence : JudgeConfidences, reason : JsonReasons],
        [verdict : JsonVerdicts, confidence : JudgeConfidences, reason : JsonReasons]}

\* what the text fallback reads: the two substring tests, and the number the
\* regular expression captures (no sign can be captured, so it is >= 0;
\* "unparsable" is a capture float() rejects, such as "1.2.3")
ConfMatches == {"none", "unparsable"} \cup {"400", "1500"}

TextReplies ==
    {x \in [kind : {"text"}, text : {"", "reply"}, not_supported : BOOLEAN,
            supported : BOOLEAN, conf_match : ConfMatches] :
        /\ x.not_supported => x.supported       \* "NOT_SUPPORTED" contains "SUPPORTED"
        /\ x.text = "" => (~x.supported /\ x.conf_match = "none")}

JudgeReplies ==
    {[kind |-> "json", data |-> d] : d \in JsonData}
        \cup {[kind |-> "json_raises"]}          \* e.g. a JSON array, or "verdict": null
        \cup TextReplies

\* dict.get(key, default)
get(d, key, default) == IF key \in DOMAIN d THEN d[key] ELSE default

\* str.upper() on the verdicts of the model
upper(v) == IF v = "supported" THEN "SUPPORTED" ELSE v

\* float() of a captured number, in thousandths
float_of(match) == IF match = "400" THEN 400 ELSE 1500

\* min(max(x, 0.0), 1.0)
clamp(x) == IF x < 0 THEN 0 ELSE IF x > 1000 THEN 1000 ELSE x

parse_llm_verdict(reply) ==
    IF reply.kind = "json"
    THEN [raised |-> FALSE,
          verdict |-> [verdict    |-> upper(get(reply.data, "verdict", "UNKNOWN")),
                       confidence |-> get(reply.data, "confidence", 500),
                       reason     |-> get(reply.data, "reason", "")]]
    ELSE IF reply.kind = "json_raises"
    THEN [raised |-> TRUE]
    ELSE
    With(IF reply.not_supported THEN "NOT_SUPPORTED"
         ELSE IF reply.supported THEN "SUPPORTED" ELSE "UNKNOWN", LAMBDA verdict :
    With(IF reply.not_supported THEN 300
         ELSE IF reply.supported THEN 800 ELSE 500, LAMBDA confidence :
        [raised |-> FALSE,
         verdict |-> [verdict    |-> verdict,
                      confidence |-> IF reply.conf_match \in {"none", "unparsable"}
                                     THEN confidence
                                     ELSE clamp(float_of(reply.conf_match)),
                      reason     |-> reply.text]]))

\* the verdict _call_llm_judge makes up when no reply could be used
unknown_verdict(reason) == [verdict |-> "UNKNOWN", confidence |-> 500, reason |-> reason]

\* _check_llm_based on a blank answer
llm_empty ==
    [is_grounded          |-> FALSE,
     confidence           |-> 0,
     issues               |-> <<"Answer is empty">>,
     grounded_sentences   |-> <<>>,
     ungrounded_sentences |-> <<>>,
     method               |-> "llm"]

\* _check_llm_based once the judge has returned its verdict
llm_result_by_verdict_only(sentences, verdict) ==
    With(verdict.verdict = "SUPPORTED", LAMBDA is_supported :
        [is_grounded          |-> is_supported,
         confidence           |-> round3(Frac(verdict.confidence, 1)),
         issues               |-> IF is_supported THEN <<>> ELSE <<"LLM judge">>,
         grounded_sentences   |-> IF is_supported THEN sentences ELSE <<>>,
         ungrounded_sentences |-> IF is_supported THEN <<>> ELSE sentences,
         method               |-> "llm",
         total_sentences      |-> Len(sentences),
         grounded_count       |-> IF is_supported THEN Len(sentences) ELSE 0,
         ungrounded_count     |-> IF is_supported THEN 0 ELSE Len(sentences),
         llm_verdict          |-> verdict])

llm_result(sentences, verdict) ==
    With(verdict.verdict = "SUPPORTED", LAMBDA is_supported :
        [is_grounded          |-> is_supported /\ verdict.confidence >= GroundedConfidence,
         confidence           |-> round3(Frac(verdict.confidence, 1)),
         issues               |-> IF is_supported THEN <<>> ELSE <<"LLM judge">>,
         grounded_sentences   |-> IF is_supported THEN sentences ELSE <<>>,
         ungrounded_sentences |-> IF is_supported THEN <<>> ELSE sentences,
         method               |-> "llm",
         total_sentences      |-> Len(sentences),
         grounded_count       |-> IF is_supported THEN Len(sentences) ELSE 0,
         ungrounded_count     |-> IF is_supported THEN 0 ELSE Len(sentences),
         llm_verdict          |-> verdict])

\* _check_hybrid when the semantic pass leaves nothing ungrounded
hybrid_all_passed(semantic) ==
    [semantic EXCEPT !.method = "hybrid (semantic only - all passed)"]

\* _check_hybrid when _call_llm_judge raises
hybrid_llm_unavailable(semantic) ==
    [semantic EXCEPT !.method = "hybrid (LLM unavailable - semantic only)",
                     !.issues = Append(@, "LLM fallback failed")]

\* _check_hybrid, the judge does not support the answer with confidence >= 0.7
hybrid_confirmed_judge_confidence(semantic, llm_verdict) ==
    [method      |-> "hybrid (semantic + LLM confirmed)",
     confidence  |-> round3(Frac(llm_verdict.confidence, 1)),
     is_grounded |-> llm_verdict.confidence >= GroundedConfidence
                        /\ Len(semantic.ungrounded_sentences) = 0,
     llm_verdict |-> llm_verdict,
     issues      |-> IF llm_verdict.reason # ""
                     THEN Append(semantic.issues, "LLM confirms")
                     ELSE semantic.issues]
        @@ semantic

hybrid_confirmed(semantic, llm_verdict) ==
    With(semantic.ungrounded_sentences, LAMBDA ungrounded :
    With(Min({semantic.confidence, llm_verdict.confidence}), LAMBDA combined_conf :
        [method      |-> "hybrid (semantic + LLM confirmed)",
         confidence  |-> round3(Frac(combined_conf, 1)),
         is_grounded |-> combined_conf >= GroundedConfidence /\ Len(ungrounded) = 0,
         llm_verdict |-> llm_verdict,
         issues      |-> IF llm_verdict.reason # ""
                         THEN Append(semantic.issues, "LLM confirms")
                         ELSE semantic.issues]
            @@ semantic))

\* _check_hybrid, the judge supports the answer with confidence >= 0.7
hybrid_override_grounded_only(semantic, llm_verdict) ==
    [is_grounded          |-> TRUE,
     confidence           |-> round3(Frac(llm_verdict.confidence, 1)),
     issues               |-> <<>>,
     grounded_sentences   |-> semantic.grounded_sentences,
     ungrounded_sentences |-> <<>>,
     method               |-> "hybrid (semantic + LLM override)",
     total_sentences      |-> semantic.total_sentences,
     grounded_count       |-> Len(semantic.grounded_sentences),
     ungrounded_count     |-> 0,
     llm_verdict          |-> llm_verdict,
     semantic_ungrounded_overridden |-> semantic.ungrounded_sentences]

hybrid_override(semantic, llm_verdict) ==
    With(semantic.ungrounded_sentences, LAMBDA ungrounded :
    With(semantic.grounded_sentences \o ungrounded, LAMBDA all_sentences :
        [is_grounded          |-> TRUE,
         confidence           |-> round3(Frac(llm_verdict.confidence, 1)),
         issues               |-> <<>>,
         grounded_sentences   |-> all_sentences,
         ungrounded_sentences |-> <<>>,
         method               |-> "hybrid (semantic + LLM override)",
         total_sentences      |-> Len(all_sentences),
         grounded_count       |-> Len(all_sentences),
         ungrounded_count     |-> 0,
         llm_verdict          |-> llm_verdict,
         semantic_ungrounded_overridden |-> ungrounded]))

\* _check_hybrid once the judge has returned its verdict
hybrid_result(semantic, llm_verdict) ==
    IF llm_verdict.verdict = "SUPPORTED" /\ llm_verdict.confidence >= GroundedConfidence
    THEN hybrid_override(semantic, llm_verdict)
    ELSE hybrid_confirmed(semantic, llm_verdict)

-----------------------------------------------------------------------------
(* One call check_hallucination(answer, document_content, question,        *)
(* method).  The steps of the call are its entry and the attempts of the   *)
(* judge's retry loop.                                                     *)

MaxRetries == 3

GroundMethods == {"keyword", "both", "semantic", "llm", "hybrid", "fuzzy"}

\* the sentences are read lexically unless the embedding model reads them
ReadLexically(m, available) ==
    m \in {"keyword", "both"} \/ (m \in {"semantic", "hybrid"} /\ ~available)

InitGround ==
    /\ hpc = "call"
    /\ check_method \in GroundMethods
    /\ semAvail \in BOOLEAN
    /\ check_method \notin {"semantic", "hybrid"} => semAvail
    /\ answer \in SeqsUpTo(IF ReadLexically(check_method, semAvail)
                           THEN LexicalSentences ELSE SemanticSentences, MaxSentences)
    /\ answer_blank \in BOOLEAN
    /\ answer_blank => answer = <<>>
    /\ answer_admits \in BOOLEAN
    /\ answer_admits => answer # <<>>    \* an admission phrase is part of a sentence
    /\ judge_ready \in BOOLEAN
    /\ judge_ready => check_method \in {"llm", "hybrid"}
    /\ max_retries \in {0, 1, MaxRetries}    \* no attempt, no retry, the most retries
    /\ ~judge_ready => max_retries = 0
    /\ judge_attempt = 0
    /\ judge_calls = 0
    /\ judge_outcomes = <<>>
    /\ last_reply = "none"
    /\ sleeps = <<>>
    /\ semantic_result = NoGrounding
    /\ result = NoGrounding
    /\ similarity_threshold = 85 /\ method = "semantic" /\ closePairs = {}
    /\ DedupIdle
    /\ GenIdle
    /\ ConfigIdle
    /\ QualityIdle
    /\ MoreIdle

\* the call returns r
Return(r) ==
    /\ result' = r
    /\ hpc' = "done"
    /\ UNCHANGED semantic_result

\* the call raises (ValueError for an unknown method, RuntimeError of the judge)
Raise ==
    /\ hpc' = "raised"
    /\ UNCHANGED <<result, semantic_result>>

\* what the caller of _call_llm_judge does with the verdict
Concluded(verdict) ==
    Return(IF check_method = "llm" THEN llm_result(answer, verdict)
           ELSE hybrid_result(semantic_result, verdict))

\* the retry test with one attempt more than max_retries allowed
may_retry_once_more(attempt_no, retries) == attempt_no < retries

\* `if attempt < max_retries - 1`: another attempt follows a failed one
may_retry(attempt_no, retries) == attempt_no < retries - 1

\* time.sleep(retry_delay * (attempt + 1)), in units of retry_delay
backoff(attempt_no) == attempt_no + 1

\* the `except Exception` of the retry loop
Failed ==
    IF may_retry(judge_attempt, max_retries)
    THEN /\ judge_attempt' = judge_attempt + 1
         /\ sleeps' = Append(sleeps, backoff(judge_attempt))
         /\ UNCHANGED <<hpc, result, semantic_result>>
    ELSE /\ Concluded(unknown_verdict("LLM call failed"))
         /\ UNCHANGED <<judge_attempt, sleeps>>

\* `if not ungrounded`: the hybrid method asks the judge only about an answer
\* the semantic pass left a sentence of ungrounded
needs_judge_always(semantic) == TRUE

needs_judge(semantic) == semantic.ungrounded_sentences # <<>>

\* check_hallucination up to its return, or up to the judge's first attempt
CheckHallucination ==
    /\ hpc = "call"
    /\ IF check_method \in {"keyword", "both"}
       THEN Return(check_keyword_based(answer, answer_admits)) /\ UNCHANGED judge_calls
       ELSE IF check_method = "semantic"
       THEN Return(check_semantic_based(answer, answer_admits)) /\ UNCHANGED judge_calls
       ELSE IF check_method = "llm"
       THEN IF answer_blank THEN Return(llm_empty) /\ UNCHANGED judge_calls
            ELSE /\ judge_calls' = judge_calls + 1
                 /\ IF ~judge_ready THEN Raise
                    ELSE IF max_retries <= 0
                    THEN Return(llm_result(answer, unknown_verdict("LLM call exhausted retries")))
                    ELSE /\ hpc' = "judge"
                         /\ UNCHANGED <<result, semantic_result>>
       ELSE IF check_method = "hybrid"
       THEN \E semantic \in {check_semantic_based(answer, answer_admits)} :
            IF ~needs_judge(semantic)
            THEN Return(hybrid_all_passed(semantic)) /\ UNCHANGED judge_calls
            ELSE /\ judge_calls' = judge_calls + 1
                 /\ IF ~judge_ready THEN Return(hybrid_llm_unavailable(semantic))
                    ELSE IF max_retries <= 0
                    THEN Return(hybrid_result(semantic,
                                              unknown_verdict("LLM call exhausted retries")))
                    ELSE /\ hpc' = "judge"
                         /\ semantic_result' = semantic
                         /\ UNCHANGED result
       ELSE Raise /\ UNCHANGED judge_calls
    /\ UNCHANGED <<check_method, answer, answer_blank, answer_admits, judge_ready,
                   max_retries, judge_attempt, judge_outcomes, last_reply, sleeps,
                   dcfg, dcall, gvars, cvars, qvars, xvars>>

\* an attempt of the retry loop in which the judge model replies
JudgeReply ==
    /\ hpc = "judge"
    /\ \E reply \in JudgeReplies :
          \E parsed \in {parse_llm_verdict(reply)} :
             /\ judge_outcomes' = Append(judge_outcomes,
                                         IF parsed.raised THEN "failed" ELSE "verdict")
             /\ last_reply' = reply.kind
             /\ IF parsed.raised THEN Failed
                ELSE Concluded(parsed.verdict) /\ UNCHANGED <<judge_attempt, sleeps>>
    /\ UNCHANGED <<check_method, answer, answer_blank, answer_admits, judge_ready,
                   max_retries, judge_calls, dcfg, dcall, gvars, cvars, qvars, xvars>>

\* an attempt of the retry loop in which the request raises
JudgeFailure ==
    /\ hpc = "judge"
    /\ judge_outcomes' = Append(judge_outcomes, "failed")
    /\ last_reply' = "none"
    /\ Failed
    /\ UNCHANGED <<check_method, answer, answer_blank, answer_admits, judge_ready,
                   max_retries, judge_calls, dcfg, dcall, gvars, cvars, qvars, xvars>>

NextGround == CheckHallucination \/ JudgeReply \/ JudgeFailure

SpecGround == InitGround /\ [][NextGround]_vars

-----------------------------------------------------------------------------
(* The models of the pipeline.  run_qa_pipeline hands one config to the    *)
(* answer generator and to set_llm_config.  A section of the config is a   *)
(* dict, here a record whose fields are the keys it has; a model or an     *)
(* endpoint is its name.                                                   *)

Llama == "meta-llama/Llama-2-7b-chat-hf"

Qwen == "Qwen/Qwen2.5-7B-Instruct"

Port8100 == "http://localhost:8100/v1"

Port8101 == "http://localhost:8101/v1"

Models == {Llama, Qwen}

Urls == {Port8100, Port8101}

\* the dicts with some of the keys "model" and "base_url"
ModelSections ==
    {m @@ u : m \in {<<>>} \cup {[model |-> x] : x \in Models},
              u \in {<<>>} \cup {[base_url |-> x] : x \in Urls}}

\* the configs: an "llm" section, and a "judge" section or none
Configs ==
    {[llm |-> l] : l \in ModelSections}
        \cup {[llm |-> l, judge |-> j] : l \in ModelSections, j \in ModelSections}

\* the environments: VLLM_JUDGE_MODEL and VLLM_JUDGE_BASE_URL are set or not
Environs ==
    {m @@ u : m \in {<<>>} \cup {[VLLM_JUDGE_MODEL |-> x] : x \in Models},
              u \in {<<>>} \cup {[VLLM_JUDGE_BASE_URL |-> x] : x \in Urls}}

\* Python's `a or b` on strings; None and "" are both written ""
or(a, b) == IF a # "" THEN a ELSE b

\* set_llm_config(config): the _judge_config it builds
set_llm_config(cfg, env) ==
    LET judge_section == get(cfg, "judge", <<>>)
        llm_section == get(cfg, "llm", <<>>)
        judge_base_url == get(env, "VLLM_JUDGE_BASE_URL", "")
        judge_model == get(env, "VLLM_JUDGE_MODEL", "")
    IN  [base_url |-> or(judge_base_url, or(get(judge_section, "base_url", ""),
                                            get(llm_section, "base_url", Port8101))),
         model |-> or(judge_model, or(get(judge_section, "model", ""),
                                      get(llm_section, "model", Qwen)))]

\* _call_llm_judge: the model and endpoint of its request
judge_request(jcfg) ==
    [model |-> get(jcfg, "model", Qwen), base_url |-> get(jcfg, "base_url", Port8101)]

\* _call_vllm_llm of the answer generator: the model and endpoint of its request
generator_request(cfg) ==
    [model |-> get(cfg.llm, "model", Llama), base_url |-> get(cfg.llm, "base_url", Port8100)]

InitConfig ==
    /\ cpc = "loaded"
    /\ config \in Configs
    /\ environ \in Environs
    /\ judge_config = <<>>
    /\ judge_client = NoClient
    /\ generator_client = NoClient
    /\ similarity_threshold = 85 /\ method = "semantic" /\ semAvail = TRUE /\ closePairs = {}
    /\ DedupIdle
    /\ GenIdle
    /\ GroundIdle
    /\ QualityIdle
    /\ MoreIdle

\* run_qa_pipeline: set_llm_config(config)
SetLlmConfig ==
    /\ cpc = "loaded"
    /\ cpc' = "configured"
    /\ judge_config' = set_llm_config(config, environ)
    /\ UNCHANGED <<config, environ, judge_client, generator_client,
                   dcfg, dcall, gvars, hvars, qvars, xvars>>

\* the answer generator sends a request to its model
GenerateAnswer ==
    /\ generator_client = NoClient
    /\ generator_client' = generator_request(config)
    /\ UNCHANGED <<cpc, config, environ, judge_config, judge_client,
                   dcfg, dcall, gvars, hvars, qvars, xvars>>

\* _check_llm_based or _check_hybrid calls the judge: _call_llm_judge sends
\* a request (with no _judge_config and no _llm_config it raises instead)
CallJudge ==
    /\ cpc = "configured"
    /\ judge_client = NoClient
    /\ judge_client' = judge_request(judge_config)
    /\ UNCHANGED <<cpc, config, environ, judge_config, generator_client,
                   dcfg, dcall, gvars, hvars, qvars, xvars>>

NextConfig == SetLlmConfig \/ GenerateAnswer \/ CallJudge

SpecConfig == InitConfig /\ [][NextConfig]_vars

-----------------------------------------------------------------------------
(* utils/result_analyzer.py: evaluate_document_quality.  A question/answer *)
(* pair is what _evaluate_pair reads of it: its "grading" dict, if it has  *)
(* one, with a confidence (in thousandths, or None) and is_grounded, and   *)
(* the length of the trimmed answer.  Thresholds on confidences are        *)
(* thousandths too.                                                        *)

\* Python's None where a number is expected
None == -1

DEFAULT_THRESHOLDS ==
    [min_questions |-> 3, attention_confidence |-> 500, review_confidence |-> 750,
     low_confidence |-> 650, short_answer_chars |-> 60]

MaxPairs == 3

\* the confidences a grading carries; an ungraded pair has none
PairConfidences == {400, 600, 900}

AnswerLengths == {10, 100}

\* the "grading" dicts a graded pair carries
Gradings == [confidence : PairConfidences, is_grounded : BOOLEAN]

Pairs ==
    {[answer_length |-> n] : n \in AnswerLengths}
        \cup {[answer_length |-> n, grading |-> g] : n \in AnswerLengths, g \in Gradings}

\* the documents of at most so many pairs: qa_pairs, and a grading_summary with an overall_confidence or none
Documents(most) ==
    {[qa_pairs |-> ps] : ps \in SeqsUpTo(Pairs, most)}
        \cup {[qa_pairs |-> ps, grading_summary |-> [overall_confidence |-> c]] :
                 ps \in SeqsUpTo(Pairs, most), c \in {400, 900}}

\* the thresholds argument: None (no override), or a stricter review_confidence
ThresholdOverrides == {<<>>, [review_confidence |-> 950]}

\* {**DEFAULT_THRESHOLDS, **(thresholds or {})}
merged(overrides) == overrides @@ DEFAULT_THRESHOLDS

\* _evaluate_pair with a short answer always setting the status "warn"
evaluate_pair_short_warns(pair, idx, cfg) ==
    LET grading == get(pair, "grading", <<>>)
        confidence == get(grading, "confidence", None)
        is_grounded == get(grading, "is_grounded", "None")
        is_False == "is_grounded" \in DOMAIN grading /\ grading.is_grounded = FALSE
        notes1 == IF confidence = None THEN <<"missing confidence">>
                  ELSE IF confidence < cfg.low_confidence THEN <<"confidence below low_confidence">>
                  ELSE <<>>
        notes2 == IF is_False
                  THEN Append(notes1, "grading flagged as ungrounded") ELSE notes1
        short == pair.answer_length < cfg.short_answer_chars
    IN  [question_index |-> idx, confidence |-> confidence, is_grounded |-> is_grounded,
         answer_length |-> pair.answer_length,
         status |-> IF short THEN "warn"
                    ELSE IF is_False THEN "fail"
                    ELSE IF notes1 # <<>> THEN "warn" ELSE "ok",
         notes |-> IF short THEN Append(notes2, "answer very short") ELSE notes2]

\* _evaluate_pair(pair, idx, thresholds): the QAQuality of one pair
evaluate_pair(pair, idx, cfg) ==
    LET grading == get(pair, "grading", <<>>)
        confidence == get(grading, "confidence", None)
        is_grounded == get(grading, "is_grounded", "None")
        is_False == "is_grounded" \in DOMAIN grading /\ grading.is_grounded = FALSE
        notes1 == IF confidence = None THEN <<"missing confidence">>
                  ELSE IF confidence < cfg.low_confidence THEN <<"confidence below low_confidence">>
                  ELSE <<>>
        status1 == IF notes1 # <<>> THEN "warn" ELSE "ok"
        notes2 == IF is_False
                  THEN Append(notes1, "grading flagged as ungrounded") ELSE notes1
        status2 == IF is_False THEN "fail" ELSE status1
        short == pair.answer_length < cfg.short_answer_chars
        notes3 == IF short THEN Append(notes2, "answer very short") ELSE notes2
        status3 == IF short THEN (IF status2 = "ok" THEN "warn" ELSE status2) ELSE status2
    IN  [question_index |-> idx, confidence |-> confidence, is_grounded |-> is_grounded,
         answer_length |-> pair.answer_length, status |-> status3, notes |-> notes3]

RECURSIVE sum(_)
sum(xs) == IF xs = <<>> THEN 0 ELSE xs[1] + sum(Tail(xs))

\* statistics.mean, in thousandths rounded down; a comparison `mean < t` with
\* a whole number of thousandths t is not changed by the rounding
mean(xs) == sum(xs) \div Len(xs)

\* the overall confidence, with the stored value kept whatever the pairs are
overall_confidence_stored_kept(stored, confidences, low_conf_pairs) ==
    IF stored = None /\ confidences # <<>> THEN mean(confidences) ELSE stored

\* lines 73-76 and 89-90: the overall_conf the band is picked for
overall_confidence(stored, confidences, low_conf_pairs) ==
    LET first == IF stored = None /\ confidences # <<>> THEN mean(confidences) ELSE stored
    IN  IF low_conf_pairs # <<>> /\ confidences # <<>> THEN mean(confidences) ELSE first

\* the band, with the "review" rule tried before the second "needs_attention" rule
quality_band_review_first(qa_pairs, overall_conf, low_conf_pairs, warnings, cfg) ==
    IF qa_pairs = <<>> THEN "needs_attention"
    ELSE IF overall_conf # None /\ overall_conf < cfg.attention_confidence THEN "needs_attention"
    ELSE IF warnings # <<>> \/ (overall_conf # None /\ overall_conf < cfg.review_confidence)
         THEN "review"
    ELSE IF low_conf_pairs # <<>> /\ overall_conf # None /\ overall_conf < cfg.review_confidence
         THEN "needs_attention"
    ELSE "excellent"

\* lines 92-101: the quality band
quality_band(qa_pairs, overall_conf, low_conf_pairs, warnings, cfg) ==
    IF qa_pairs = <<>> THEN "needs_attention"
    ELSE IF overall_conf # None /\ overall_conf < cfg.attention_confidence THEN "needs_attention"
    ELSE IF low_conf_pairs # <<>> /\ overall_conf # None /\ overall_conf < cfg.review_confidence
         THEN "needs_attention"
    ELSE IF warnings # <<>> \/ (overall_conf # None /\ overall_conf < cfg.review_confidence)
         THEN "review"
    ELSE "excellent"

IsLow(pair) == pair.status \in {"warn", "fail"}

HasConfidence(pair) == pair.confidence # None

\* a warning is the question it is about (0: the document) and its text
TooFewQuestions == [question_index |-> 0, notes |-> <<"Only n question(s)">>]

NoPairsAvailable == [question_index |-> 0, notes |-> <<"No Q&A pairs available">>]

\* f"Q{pair.question_index}: {', '.join(pair.notes)}" for the pairs with notes
pair_warnings(low_conf_pairs) ==
    [k \in 1..Len(low_conf_pairs) |->
        [question_index |-> low_conf_pairs[k].question_index, notes |-> low_conf_pairs[k].notes]]

\* evaluate_document_quality(document, thresholds=overrides)
evaluate_document_quality(doc, overrides) ==
    LET cfg == merged(overrides)
        qa_pairs == doc.qa_pairs
        per_pair == [idx \in 1..Len(qa_pairs) |-> evaluate_pair(qa_pairs[idx], idx, cfg)]
        stored == get(get(doc, "grading_summary", <<>>), "overall_confidence", None)
        with_conf == SelectSeq(per_pair, HasConfidence)
        confidences == [k \in 1..Len(with_conf) |-> with_conf[k].confidence]
        low_conf_pairs == SelectSeq(per_pair, IsLow)
        overall_conf == overall_confidence(stored, confidences, low_conf_pairs)
        warnings == (IF Len(qa_pairs) < cfg.min_questions THEN <<TooFewQuestions>> ELSE <<>>)
                        \o pair_warnings(low_conf_pairs)
    IN  [num_questions |-> Len(qa_pairs),
         overall_confidence |-> overall_conf,
         quality_band |-> quality_band(qa_pairs, overall_conf, low_conf_pairs, warnings, cfg),
         warnings |-> IF qa_pairs = <<>> THEN Append(warnings, NoPairsAvailable) ELSE warnings,
         pair_details |-> [idx \in 1..Len(per_pair) |->
                              [status |-> per_pair[idx].status,
                               confidence |-> per_pair[idx].confidence,
                               notes |-> per_pair[idx].notes]]]

InitQuality ==
    /\ qpc = "input"
    /\ document \in Documents(MaxPairs)
    /\ thresholds \in ThresholdOverrides
    /\ report = NoReport
    /\ similarity_threshold = 85 /\ method = "semantic" /\ semAvail = TRUE /\ closePairs = {}
    /\ DedupIdle
    /\ GenIdle
    /\ GroundIdle
    /\ ConfigIdle
    /\ MoreIdle

\* a call evaluate_document_quality(document, thresholds=thresholds)
EvaluateDocumentQuality ==
    /\ qpc = "input"
    /\ qpc' = "evaluated"
    /\ \E r \in {evaluate_document_quality(document, thresholds)} : report' = r
    /\ UNCHANGED <<document, thresholds, dcfg, dcall, gvars, hvars, cvars, xvars>>

NextQuality == EvaluateDocumentQuality

SpecQuality == InitQuality /\ [][NextQuality]_vars

-----------------------------------------------------------------------------
(* utils/result_analyzer.py: summarize_documents.  A report is a dict: it  *)
(* has the key "quality_band" or lacks it.                                 *)

MaxReports == 3

Bands == {"excellent", "review", "needs_attention"}

\* the reports: without a band, with a known band, with a band of another name
Reports ==
    {[document_id |-> "doc"]}
        \cup {[document_id |-> "doc", quality_band |-> b] : b \in Bands \cup {"poor"}}

\* the loop of summarize_documents: totals[band] = totals.get(band, 0) + 1
RECURSIVE tally(_, _)
tally(documents, totals) ==
    IF documents = <<>> THEN totals
    ELSE LET band == get(Head(documents), "quality_band", "review")
         IN  With((band :> (get(totals, band, 0) + 1)) @@ totals, LAMBDA counted :
                 tally(Tail(documents), counted))

summarize_documents(documents) ==
    [total_documents |-> Len(documents),
     quality_breakdown |-> tally(documents, [excellent |-> 0, review |-> 0, needs_attention |-> 0])]

InitSummary ==
    /\ spc = "input"
    /\ reports \in SeqsUpTo(Reports, MaxReports)
    /\ summary = [total_documents |-> 0]
    /\ similarity_threshold = 85 /\ method = "semantic" /\ semAvail = TRUE /\ closePairs = {}
    /\ DedupIdle /\ GenIdle /\ GroundIdle /\ ConfigIdle /\ QualityIdle
    /\ BatchIdle /\ PairIdle /\ CacheIdle /\ SplitIdle

\* a call summarize_documents(reports)
SummarizeDocuments ==
    /\ spc = "input"
    /\ spc' = "summarized"
    /\ \E r \in {summarize_documents(reports)} : summary' = r
    /\ UNCHANGED <<reports, dcfg, dcall, gvars, hvars, cvars, qvars, bvars, pvars, kvars, tvars>>

NextSummary == SummarizeDocuments

SpecSummary == InitSummary /\ [][NextSummary]_vars

-----------------------------------------------------------------------------
(* Batch grading.  grade_qa_results grades the pairs of each document with *)
(* check_hallucination.  utils/grade_qa_results.py hands it a whole file   *)
(* of documents; run_qa_pipeline hands it one document at a time.  A pair  *)
(* is what the batch sees of it: check_hallucination returns a result for  *)
(* it ("ok") or raises ("raises": no judge configuration, an embedding     *)
(* error).  A graded document is its index and the pairs it has checks of. *)

MaxDocuments == 2

MaxPairsPerDocument == 2

PairOutcomes == {"ok", "raises"}

Batches == SeqsUpTo(SeqsUpTo(PairOutcomes, MaxPairsPerDocument), MaxDocuments)

InitBatch ==
    /\ bpc = "grading"
    /\ caller \in {"script", "pipeline"}
    /\ qa_results \in Batches
    /\ doc_index = 1
    /\ pair_index = 0
    /\ hallucination_checks = <<>>
    /\ graded_results = <<>>
    /\ grading_warnings = <<>>
    /\ similarity_threshold = 85 /\ method = "semantic" /\ semAvail = TRUE /\ closePairs = {}
    /\ DedupIdle /\ GenIdle /\ GroundIdle /\ ConfigIdle /\ QualityIdle
    /\ SummaryIdle /\ PairIdle /\ CacheIdle /\ SplitIdle

Grading == bpc = "grading" /\ doc_index <= Len(qa_results)

\* grade_qa_results, lines 538-547: check_hallucination returns for the next pair
CheckPair ==
    /\ Grading
    /\ pair_index < Len(qa_results[doc_index])
    /\ qa_results[doc_index][pair_index + 1] = "ok"
    /\ pair_index' = pair_index + 1
    /\ hallucination_checks' = Append(hallucination_checks, pair_index + 1)
    /\ UNCHANGED <<bpc, caller, qa_results, doc_index, graded_results, grading_warnings,
                   dcfg, dcall, gvars, hvars, cvars, qvars, svars, pvars, kvars, tvars>>

\* grade_qa_results, lines 549-571: the document's pairs are done and its graded
\* result is appended; the script's call goes on with the next document, the
\* pipeline's call (of one document) returns and the pipeline goes on
DocumentGraded ==
    /\ Grading
    /\ pair_index = Len(qa_results[doc_index])
    /\ graded_results' = Append(graded_results,
                                [document |-> doc_index, checks |-> hallucination_checks])
    /\ doc_index' = doc_index + 1
    /\ pair_index' = 0
    /\ hallucination_checks' = <<>>
    /\ UNCHANGED <<bpc, caller, qa_results, grading_warnings,
                   dcfg, dcall, gvars, hvars, cvars, qvars, svars, pvars, kvars, tvars>>

\* check_hallucination raises for the next pair.  grade_qa_results catches
\* nothing: the call ends without a return value.  The script (lines 110-114)
\* prints the error and exits with status 1, nothing graded is saved; the
\* pipeline (lines 163-164) prints a warning for the document and goes on.
CheckRaises ==
    /\ Grading
    /\ pair_index < Len(qa_results[doc_index])
    /\ qa_results[doc_index][pair_index + 1] = "raises"
    /\ hallucination_checks' = <<>>
    /\ pair_index' = 0
    /\ IF caller = "script"
       THEN /\ bpc' = "exited"
            /\ graded_results' = <<>>
            /\ UNCHANGED <<doc_index, grading_warnings>>
       ELSE /\ grading_warnings' = Append(grading_warnings, doc_index)
            /\ doc_index' = doc_index + 1
            /\ UNCHANGED <<bpc, graded_results>>
    /\ UNCHANGED <<caller, qa_results,
                   dcfg, dcall, gvars, hvars, cvars, qvars, svars, pvars, kvars, tvars>>

\* every document has been gone through
BatchDone ==
    /\ bpc = "grading"
    /\ doc_index > Len(qa_results)
    /\ bpc' = "returned"
    /\ UNCHANGED <<caller, qa_results, doc_index, pair_index, hallucination_checks,
                   graded_results, grading_warnings,
                   dcfg, dcall, gvars, hvars, cvars, qvars, svars, pvars, kvars, tvars>>

NextBatch == CheckPair \/ DocumentGraded \/ CheckRaises \/ BatchDone

SpecBatch == InitBatch /\ [][NextBatch]_vars

-----------------------------------------------------------------------------
(* normalize_text, calculate_jaccard_similarity, calculate_semantic_       *)
(* similarity and is_duplicate on one pair of questions.                   *)

InitPair ==
    /\ ppc = "input"
    /\ question_a \in PairTexts
    /\ question_b \in PairTexts
    /\ exact_arg \in BOOLEAN
    /\ compared = [duplicate |-> FALSE]
    /\ similarity_threshold \in Thresholds
    /\ method \in Methods
    /\ semAvail \in BOOLEAN
    /\ closePairs \in (IF semAvail THEN {{}, {{question_a, question_b}}} ELSE {{}})
    /\ DedupIdle /\ GenIdle /\ GroundIdle /\ ConfigIdle /\ QualityIdle
    /\ SummaryIdle /\ BatchIdle /\ CacheIdle /\ SplitIdle

\* the calls on the pair: normalize_text on each question and on the first
\* one's normalized form, calculate_jaccard_similarity in both orders and on
\* the first question with itself, calculate_semantic_similarity, and
\* is_duplicate with the method given and with the method "jaccard"
ComparePair ==
    /\ ppc = "input"
    /\ ppc' = "compared"
    /\ \E r \in {[normalized1 |-> normalized(question_a),
                  normalized2 |-> normalized(question_b),
                  renormalized1 |-> normalize_text(normalized(question_a)),
                  jaccard |-> calculate_jaccard_similarity(question_a, question_b),
                  jaccard_swapped |-> calculate_jaccard_similarity(question_b, question_a),
                  jaccard_self |-> calculate_jaccard_similarity(question_a, question_a),
                  semantic |-> calculate_semantic_similarity(question_a, question_b),
                  duplicate |-> is_duplicate(question_a, question_b, similarity_threshold,
                                             exact_arg, method),
                  jaccard_duplicate |-> is_duplicate(question_a, question_b, similarity_threshold,
                                                     exact_arg, "jaccard")]} :
          compared' = r
    /\ UNCHANGED <<question_a, question_b, exact_arg,
                   dcfg, dcall, gvars, hvars, cvars, qvars, svars, bvars, kvars, tvars>>

NextPair == ComparePair

SpecPair == InitPair /\ [][NextPair]_vars

-----------------------------------------------------------------------------
(* The embedding models of one process.  calculate_semantic_similarity     *)
(* (duplicate detection with the method "semantic" or "both") and          *)
(* _check_semantic_based (grounding with the method "semantic" or          *)
(* "hybrid") each construct a SentenceTransformer.  An instance is named   *)
(* by its place in the sequence of constructions.                          *)

MaxCalls == 4

MiniLM == "all-MiniLM-L6-v2"

ModelNames == {MiniLM, "paraphrase-MiniLM-L3-v2"}

\* SentenceTransformer(...) returns, or raises (no such model, no network)
LoadOutcomes == {"loaded", "raises"}

InitCache ==
    /\ kpc = "running"
    /\ embedding_calls = 0
    /\ model_cache = <<>>
    /\ loaded = <<>>
    /\ model = 0
    /\ similarity_threshold = 85 /\ method = "semantic" /\ semAvail = TRUE /\ closePairs = {}
    /\ DedupIdle /\ GenIdle /\ GroundIdle /\ ConfigIdle /\ QualityIdle
    /\ SummaryIdle /\ BatchIdle /\ PairIdle /\ SplitIdle

\* calculate_semantic_similarity(text1, text2, model_name)
CalculateSemanticSimilarity ==
    /\ kpc = "running"
    /\ embedding_calls < MaxCalls
    /\ embedding_calls' = embedding_calls + 1
    /\ \E model_name \in ModelNames, outcome \in LoadOutcomes :
          IF model_name \notin DOMAIN model_cache
          THEN IF outcome = "loaded"
               THEN /\ loaded' = Append(loaded, model_name)
                    /\ model_cache' = model_cache @@ (model_name :> Len(loaded) + 1)
                    /\ model' = Len(loaded) + 1
               ELSE /\ model' = 0              \* except Exception: return -1.0
                    /\ UNCHANGED <<loaded, model_cache>>
          ELSE /\ model' = model_cache[model_name]
               /\ UNCHANGED <<loaded, model_cache>>
    /\ UNCHANGED <<kpc, dcfg, dcall, gvars, hvars, cvars, qvars, svars, bvars, pvars, tvars>>

\* _check_semantic_based(answer, document_content, question)
CheckSemanticBased ==
    /\ kpc = "running"
    /\ embedding_calls < MaxCalls
    /\ embedding_calls' = embedding_calls + 1
    /\ \E outcome \in LoadOutcomes :
          IF outcome = "loaded"
          THEN /\ loaded' = Append(loaded, MiniLM)
               /\ model' = Len(loaded) + 1
          ELSE /\ model' = 0                   \* the keyword method answers instead
               /\ UNCHANGED loaded
    /\ UNCHANGED <<kpc, model_cache,
                   dcfg, dcall, gvars, hvars, cvars, qvars, svars, bvars, pvars, tvars>>

NextCache == CalculateSemanticSimilarity \/ CheckSemanticBased

SpecCache == InitCache /\ [][NextCache]_vars

-----------------------------------------------------------------------------
(* The sentence segmenter, _split_into_sentences.  A text is a sequence of *)
(* characters.  The segmenter works on the characters; here each character *)
(* carries the place (at) it has in the input, 0 for a character that a    *)
(* substitution inserts.  A placeholder ("<DOT>", "<ELLIPSIS>") is one     *)
(* element: no pattern of the segmenter matches inside a placeholder.      *)

MaxTokens == 5

\* the input texts are made of these pieces
Tokens == {<<"a", "b", "c">>, <<"n", "o", ".">>, <<"1", ".">>, <<" ">>, <<"\n">>, <<".">>}

RECURSIVE concat(_)
concat(tokens) == IF tokens = <<>> THEN <<>> ELSE Head(tokens) \o concat(Tail(tokens))

InputTexts == {concat(tokens) : tokens \in SeqsUpTo(Tokens, MaxTokens)}

placed(chars) == [k \in 1..Len(chars) |-> [c |-> chars[k], at |-> k]]

\* \s, \w and [.!?] (\d is Digits)
Spaces == {" ", "\t", "\n", "\r"}

WordChars == LowerLetters \cup DOMAIN UpperToLower \cup Digits \cup {"_"}

SentenceEnds == {".", "!", "?"}

\* the character at place k of t, "" beyond its ends
CharAt(t, k) == IF k \in 1..Len(t) THEN t[k].c ELSE ""

\* the first place from k on that holds no whitespace (\s* read from k)
RECURSIVE skip_spaces(_, _)
skip_spaces(t, k) == IF CharAt(t, k) \in Spaces THEN skip_spaces(t, k + 1) ELSE k

\* the number of characters c from k on
RECURSIVE run(_, _, _)
run(t, k, chars) == IF CharAt(t, k) \in chars THEN 1 + run(t, k + 1, chars) ELSE 0

\* str.strip()
RECURSIVE lstrip(_)
lstrip(t) == IF t # <<>> /\ Head(t).c \in Spaces THEN lstrip(Tail(t)) ELSE t

RECURSIVE rstrip(_)
rstrip(t) ==
    IF t # <<>> /\ t[Len(t)].c \in Spaces THEN rstrip(SubSeq(t, 1, Len(t) - 1)) ELSE t

strip(t) == rstrip(lstrip(t))

\* \b(no)\.\s matches at k (of _ABBREVS only "no" can be spelled here)
abbreviation_at(t, k) ==
    /\ CharAt(t, k - 1) \notin WordChars
    /\ CharAt(t, k) = "n" /\ CharAt(t, k + 1) = "o"
    /\ CharAt(t, k + 2) = "."
    /\ CharAt(t, k + 3) \in Spaces

\* re.sub(rf"\b({_ABBREVS})\.\s", r"\1<DOT> ", protected), read from k
RECURSIVE protect_abbreviations(_, _)
protect_abbreviations(t, k) ==
    IF k > Len(t) THEN <<>>
    ELSE IF abbreviation_at(t, k)
    THEN <<t[k], t[k + 1], [c |-> "<DOT>", at |-> t[k + 2].at],
           [c |-> " ", at |-> t[k + 3].at]>> \o protect_abbreviations(t, k + 4)
    ELSE <<t[k]>> \o protect_abbreviations(t, k + 1)

\* (?:^|\n)\s*(\d{1,3})\.\s matches at k
numbered_item_at(t, k) ==
    /\ k = 1 \/ CharAt(t, k) = "\n"
    /\ With(skip_spaces(t, k), LAMBDA j :
       With(run(t, j, Digits), LAMBDA digits :
          /\ digits \in 1..3
          /\ CharAt(t, j + digits) = "."
          /\ CharAt(t, j + digits + 1) \in Spaces))

\* re.sub(r"(?:^|\n)\s*(\d{1,3})\.\s", r" \1<DOT> ", protected), read from k
RECURSIVE protect_numbered_items(_, _)
protect_numbered_items(t, k) ==
    IF k > Len(t) THEN <<>>
    ELSE IF numbered_item_at(t, k)
    THEN With(skip_spaces(t, k), LAMBDA j :
         With(run(t, j, Digits), LAMBDA digits :
            <<[c |-> " ", at |-> 0]>> \o SubSeq(t, j, j + digits - 1)
                \o <<[c |-> "<DOT>", at |-> t[j + digits].at],
                     [c |-> " ", at |-> t[j + digits + 1].at]>>
                \o protect_numbered_items(t, j + digits + 2)))
    ELSE <<t[k]>> \o protect_numbered_items(t, k + 1)

\* re.sub(r"(\d)\.(\d)", r"\1<DOT>\2", protected), read from k
RECURSIVE protect_decimals(_, _)
protect_decimals(t, k) ==
    IF k > Len(t) THEN <<>>
    ELSE IF /\ CharAt(t, k) \in Digits /\ CharAt(t, k + 1) = "."
            /\ CharAt(t, k + 2) \in Digits
    THEN <<t[k], [c |-> "<DOT>", at |-> t[k + 1].at], t[k + 2]>>
             \o protect_decimals(t, k + 3)
    ELSE <<t[k]>> \o protect_decimals(t, k + 1)

\* re.sub(r"\.{3,}", "<ELLIPSIS>", protected), read from k
RECURSIVE protect_ellipsis(_, _)
protect_ellipsis(t, k) ==
    IF k > Len(t) THEN <<>>
    ELSE IF run(t, k, {"."}) >= 3
    THEN <<[c |-> "<ELLIPSIS>", at |-> t[k].at]>>
             \o protect_ellipsis(t, k + run(t, k, {"."}))
    ELSE <<t[k]>> \o protect_ellipsis(t, k + 1)

\* re.split(r"(?<=[.!?])\s+", protected), read from k with the part begun
RECURSIVE split_on_sentence_ends(_, _, _)
split_on_sentence_ends(t, k, part) ==
    IF k > Len(t) THEN <<part>>
    ELSE IF CharAt(t, k - 1) \in SentenceEnds /\ CharAt(t, k) \in Spaces
    THEN <<part>> \o split_on_sentence_ends(t, skip_spaces(t, k), <<>>)
    ELSE split_on_sentence_ends(t, k + 1, Append(part, t[k]))

\* part.split("\n"), read from k with the line begun
RECURSIVE split_on_newlines(_, _, _)
split_on_newlines(t, k, line) ==
    IF k > Len(t) THEN <<line>>
    ELSE IF t[k].c = "\n"
    THEN <<line>> \o split_on_newlines(t, k + 1, <<>>)
    ELSE split_on_newlines(t, k + 1, Append(line, t[k]))

\* expanded: the lines of every part
RECURSIVE expanded_of(_)
expanded_of(parts) ==
    IF parts = <<>> THEN <<>>
    ELSE split_on_newlines(Head(parts), 1, <<>>) \o expanded_of(Tail(parts))

\* s.replace("<DOT>", ".").replace("<ELLIPSIS>", "...")
RECURSIVE restore(_)
restore(t) ==
    IF t = <<>> THEN <<>>
    ELSE (IF Head(t).c = "<DOT>" THEN <<[c |-> ".", at |-> Head(t).at]>>
          ELSE IF Head(t).c = "<ELLIPSIS>"
          THEN [k \in 1..3 |-> [c |-> ".", at |-> Head(t).at + k - 1]]
          ELSE <<Head(t)>>) \o restore(Tail(t))

\* the fragments that are kept: stripped, and longer than 2 characters
RECURSIVE clean_up(_)
clean_up(expanded) ==
    IF expanded = <<>> THEN <<>>
    ELSE With(strip(restore(Head(expanded))), LAMBDA s :
            (IF Len(s) > 2 THEN <<s>> ELSE <<>>) \o clean_up(Tail(expanded)))

split_into_sentences(text) ==
    IF strip(placed(text)) = <<>> THEN <<>>
    ELSE
    With(protect_abbreviations(placed(text), 1), LAMBDA abbreviations_protected :
    With(protect_numbered_items(abbreviations_protected, 1), LAMBDA items_protected :
    With(protect_decimals(items_protected, 1), LAMBDA decimals_protected :
    With(protect_ellipsis(decimals_protected, 1), LAMBDA protected :
        clean_up(expanded_of(split_on_sentence_ends(protected, 1, <<>>)))))))

InitSplit ==
    /\ tpc = "input"
    /\ input_text \in InputTexts
    /\ sentences_out = <<>>
    /\ similarity_threshold = 85 /\ method = "semantic" /\ semAvail = TRUE /\ closePairs = {}
    /\ DedupIdle /\ GenIdle /\ GroundIdle /\ ConfigIdle /\ QualityIdle
    /\ SummaryIdle /\ BatchIdle /\ PairIdle /\ CacheIdle

SplitIntoSentences ==
    /\ tpc = "input"
    /\ tpc' = "split"
    /\ \E r \in {split_into_sentences(input_text)} : sentences_out' = r
    /\ UNCHANGED <<input_text,
                   dcfg, dcall, gvars, hvars, cvars, qvars, svars, bvars, pvars, kvars>>

NextSplit == SplitIntoSentences

SpecSplit == InitSplit /\ [][NextSplit]_vars

-----------------------------------------------------------------------------
(* Properties of the duplicate detector (SpecDedup).                       *)

N == Len(questions)

Indices == 0..(N - 1)

\* detect_duplicate_questions has returned (a later call leaves its result as it is)
Detected == dpc = "detected"

Members(k) == Range(clusters[k].members)

\* how often index i is listed in the clusters
Listed(i) ==
    Cardinality({km \in {<<k, m>> : k \in 1..Len(clusters), m \in 1..MaxQuestions + 1} :
                    /\ km[2] <= Len(clusters[km[1]].members)
                    /\ clusters[km[1]].members[km[2]] = i})

NoRepeats(s) == \A a, b \in 1..Len(s) : a # b => s[a] # s[b]

\* the pair (i, j), i < j, as detect_duplicate_questions judges it
Judged(i, j) ==
    is_duplicate(questions[i + 1], questions[j + 1], similarity_threshold, exact_match, method)

\* C1: the clusters partition the indices 0..n-1 (every index is listed exactly
\* once), there are as many representatives as clusters, the representatives
\* and the duplicate indices together account for the n questions, and no index
\* is listed twice among the duplicate indices.
C1_ClustersPartitionIndices ==
    Detected =>
        /\ N >= 2 => /\ \A i \in Indices : Listed(i) = 1
                     /\ \A k \in 1..Len(clusters) : Members(k) # {} /\ Members(k) \subseteq Indices
                     /\ Len(unique_questions) = Len(clusters)
        /\ Len(unique_questions) + Len(duplicate_indices) = N
        /\ NoRepeats(duplicate_indices)
        /\ Range(duplicate_indices) \subseteq Indices

\* three questions in two clusters, one of them a duplicate
C1_Witness ==
    /\ dpc = "detected" /\ N = 3
    /\ Len(clusters) = 2 /\ Len(duplicate_indices) = 1

\* C2 as claimed: any two indices of one cluster are judged duplicates of each
\* other.
C2_ClusterMutuallyEquivalent ==
    Detected =>
        \A k \in 1..Len(clusters) : \A i, j \in Members(k) : i < j => Judged(i, j)

RECURSIVE Linked(_, _)
\* the members of cluster k reached from the set S over judged-duplicate pairs
Linked(S, k) ==
    With(S \cup {j \in Members(k) : \E i \in S : (i < j /\ Judged(i, j)) \/ (j < i /\ Judged(j, i))},
         LAMBDA T : IF T = S THEN S ELSE Linked(T, k))

\* C2 amended: any two indices of one cluster are linked by a chain of members
\* of that cluster in which each consecutive pair is judged a duplicate (every
\* member is reached from the lowest one, so any two are linked through it).
C2_ClusterChainEquivalent ==
    Detected =>
        \A k \in 1..Len(clusters) :
            Members(k) # {} /\ Linked({Min(Members(k))}, k) = Members(k)

\* a cluster of three held together by a chain: its ends are not duplicates
C2_Witness ==
    /\ dpc = "detected"
    /\ \E k \in 1..Len(clusters) :
          /\ Cardinality(Members(k)) = 3
          /\ \E i, j \in Members(k) : i < j /\ ~Judged(i, j)

\* C3: each cluster is represented by the question at its lowest index, the
\* representatives come in the order in which the clusters are first met
\* (ascending lowest index), and duplicate_indices is the ascending list of
\* all the other members; two equal-normalizing questions followed by one that
\* duplicates neither give 2 representatives and duplicate_indices = [1].
C3_LowestIndexRepresents ==
    Detected =>
        /\ N <= 1 => unique_questions = questions /\ duplicate_indices = <<>>
        /\ N >= 2 =>
              /\ Len(unique_questions) = Len(clusters)
              /\ \A k \in 1..Len(clusters) :
                    unique_questions[k] = questions[Min(Members(k)) + 1]
              /\ \A k \in 1..(Len(clusters) - 1) : Min(Members(k)) < Min(Members(k + 1))
              /\ Range(duplicate_indices) =
                    UNION {Members(k) \ {Min(Members(k))} : k \in 1..Len(clusters)}
              /\ \A a \in 1..(Len(duplicate_indices) - 1) :
                    duplicate_indices[a] < duplicate_indices[a + 1]
        /\ (/\ N = 3 /\ exact_match
            /\ normalized(questions[1]) = normalized(questions[2])
            /\ ~Judged(0, 2) /\ ~Judged(1, 2))
           => Len(unique_questions) = 2 /\ duplicate_indices = <<1>>

\* a cluster of three whose union-find root is not its lowest index
C3_Witness ==
    /\ dpc = "detected"
    /\ \E k \in 1..Len(clusters) :
          clusters[k].root # Min(Members(k)) /\ Cardinality(Members(k)) = 3

\* C4: clustering the representatives again returns them unchanged, with no
\* duplicate index.
C4_ReclusterIdempotent ==
    dpc = "reclustered" =>
        /\ again.unique = unique_questions
        /\ again.dups = <<>>

\* the second run had at least two representatives to compare, after a merge
C4_Witness ==
    /\ dpc = "reclustered"
    /\ Len(unique_questions) = 2 /\ Len(duplicate_indices) = 1
    /\ again.unique = unique_questions

Existing == SubSeq(questions, 1, split)

New == SubSeq(questions, split + 1, N)

\* q1 and q2 judged duplicates, in either order, as the filter judges them
FilterJudged(q1, q2) ==
    \/ is_duplicate(q1, q2, similarity_threshold, TRUE, method)
    \/ is_duplicate(q2, q1, similarity_threshold, TRUE, method)

\* C5: with existing and new both non-empty, the filter returns only elements
\* of new; no returned question is judged a duplicate of an existing question
\* or of another returned question, and none normalizes to the normalized
\* form of an existing question.
C5_FilterDeduplicates ==
    (dpc = "filtered" /\ Existing # <<>> /\ New # <<>>) =>
        /\ Range(filtered) \subseteq Range(New)
        /\ \A a \in 1..Len(filtered) :
              /\ \A e \in Range(Existing) : ~FilterJudged(e, filtered[a])
              /\ \A b \in 1..Len(filtered) : a # b => ~FilterJudged(filtered[a], filtered[b])
              /\ \A e \in Range(Existing) : normalized(filtered[a]) # normalized(e)

\* one new question was dropped as a near-duplicate (not an equal-normalizing
\* one) of an existing question, another was kept
C5_Witness ==
    /\ dpc = "filtered" /\ split = 1 /\ N = 3
    /\ Len(filtered) = 1
    /\ \E q \in Range(New) :
          /\ normalized(q) # normalized(questions[1])
          /\ FilterJudged(questions[1], q)

-----------------------------------------------------------------------------
(* Properties of generate_questions (SpecGen).                             *)

\* two questions the duplicate detector judges near-duplicates, as configured
NearDuplicates(q1, q2) ==
    \/ is_duplicate(q1, q2, similarity_threshold, TRUE, method)
    \/ is_duplicate(q2, q1, similarity_threshold, TRUE, method)

\* C6: the question list generate_questions returns for a document holds no
\* two questions the duplicate detector judges near-duplicates.
C6_FinalQuestionsDeduplicated ==
    gpc = "done" =>
        \A a, b \in 1..Len(doc_questions) :
            a # b => ~NearDuplicates(doc_questions[a], doc_questions[b])

-----------------------------------------------------------------------------
(* Properties of check_hallucination (SpecGround).                         *)

Returned == hpc = "done"

\* how often x occurs in the sequence s
Count(s, x) == Cardinality({k \in 1..Len(s) : s[k] = x})

\* the embedding provider failed, and the method asked for needs it
Degraded == ~semAvail /\ check_method \in {"semantic", "hybrid"}

\* C7: a result of the keyword or of the semantic method carries the three
\* counts, grounded_count + ungrounded_count = total_sentences = the number of
\* sentences the segmenter returned, each of these sentences is in exactly
\* one of the two lists, and the confidence is within [0, 1].
C7_SentencesPartitioned ==
    (Returned /\ check_method \in {"keyword", "semantic"}) =>
        /\ {"total_sentences", "grounded_count", "ungrounded_count"} \subseteq DOMAIN result
        /\ result.grounded_count + result.ungrounded_count = result.total_sentences
        /\ result.total_sentences = Len(answer)
        /\ result.grounded_count = Len(result.grounded_sentences)
        /\ result.ungrounded_count = Len(result.ungrounded_sentences)
        /\ \A x \in Range(answer) :
              Count(result.grounded_sentences, x) + Count(result.ungrounded_sentences, x)
                 = Count(answer, x)
        /\ result.confidence \in 0..1000

\* C8: the confidence of every result is within [0, 1], whatever the method
\* and whatever the judge model replied.
C8_ConfidenceInUnitInterval ==
    Returned => result.confidence \in 0..1000

\* C9: the keyword method's confidence is grounded_count / total_sentences
\* (0 without sentences), plus 0.2 up to 1.0 when the answer admits
\* uncertainty, to the three decimals the result keeps; is_grounded holds
\* exactly when the confidence is at least 0.7 and nothing is ungrounded; one
\* grounded sentence of two without an admission gives 0.5 and not grounded;
\* an answer with an ungrounded sentence is never grounded.
C9_KeywordConfidence ==
    (Returned /\ check_method \in {"keyword", "both"}) =>
        LET g == result.grounded_count
            t == result.total_sentences
            den == IF t = 0 THEN 1 ELSE t
            base == IF t = 0 THEN 0 ELSE 1000 * g
            num == IF ~answer_admits THEN base
                   ELSE IF base + 200 * den > 1000 * den THEN 1000 * den
                   ELSE base + 200 * den
            diff == result.confidence * den - num
        IN  /\ g = Len(result.grounded_sentences)
            /\ t = g + Len(result.ungrounded_sentences)
            /\ 2 * diff <= den /\ -2 * diff <= den
            /\ result.is_grounded <=> (result.confidence >= 700 /\ result.ungrounded_count = 0)
            /\ (t = 2 /\ g = 1 /\ ~answer_admits) =>
                  (result.confidence = 500 /\ ~result.is_grounded)
            /\ result.ungrounded_count > 0 => ~result.is_grounded

\* one of two sentences is ungrounded and the admission lifts the confidence
\* to 0.7: the answer is still not grounded
C9_Witness ==
    /\ Returned /\ check_method = "keyword"
    /\ answer_admits
    /\ result.total_sentences = 2 /\ result.ungrounded_count = 1
    /\ result.confidence = 700
    /\ ~result.is_grounded

\* C10: without the embedding provider, the result of the semantic and of the
\* hybrid method is the keyword method's, and its method field says so.
C10_DegradationDisclosed ==
    (Returned /\ Degraded) =>
        /\ result.method = "keyword (semantic unavailable)"
        /\ result.grounded_sentences = check_keyword_based(answer, answer_admits).grounded_sentences
        /\ result.ungrounded_sentences = check_keyword_based(answer, answer_admits).ungrounded_sentences

\* the semantic pass of this call, as _check_hybrid runs it first
SemanticPass == check_semantic_based(answer, answer_admits)

\* the reasons of the verdicts _call_llm_judge makes up when no attempt succeeded
FailureReasons == {"LLM call failed", "LLM call exhausted retries"}

\* the hybrid method needed the judge and the judge call failed for good: it
\* could not be called at all, or no attempt of the retry budget succeeded
JudgeFailedForGood ==
    /\ Returned /\ check_method = "hybrid"
    /\ SemanticPass.ungrounded_sentences # <<>>
    /\ \/ ~judge_ready
       \/ result.llm_verdict.reason \in FailureReasons

\* C11: when the judge call of the hybrid method fails for good, the result
\* is the semantic pass's (is_grounded, confidence and the two sentence lists
\* are the same) with one issue appended, and hybrid never raises.
C11_JudgeFailureKeepsSemantic ==
    /\ check_method = "hybrid" => hpc # "raised"
    /\ JudgeFailedForGood =>
          /\ result.is_grounded = SemanticPass.is_grounded
          /\ result.confidence = SemanticPass.confidence
          /\ result.grounded_sentences = SemanticPass.grounded_sentences
          /\ result.ungrounded_sentences = SemanticPass.ungrounded_sentences
          /\ Len(result.issues) = Len(SemanticPass.issues) + 1
          /\ Prefix(result.issues, Len(SemanticPass.issues)) = SemanticPass.issues

\* C12: the hybrid method runs the semantic pass first and calls the judge
\* once if that pass left a sentence ungrounded, and not at all otherwise (the
\* retry loop belongs to that one call); without an ungrounded sentence the
\* result is the semantic pass's in every field but the method tag.
C12_JudgeOnlyForUngrounded ==
    check_method = "hybrid" =>
        /\ hpc = "call" => judge_calls = 0
        /\ hpc \in {"judge", "done"} =>
              judge_calls = IF SemanticPass.ungrounded_sentences # <<>> THEN 1 ELSE 0
        /\ hpc = "judge" => semantic_result = SemanticPass
        /\ (Returned /\ SemanticPass.ungrounded_sentences = <<>>) =>
              /\ result = [SemanticPass EXCEPT !.method = "hybrid (semantic only - all passed)"]
              /\ "llm_verdict" \notin DOMAIN result

\* the judge was called once although the attempts of that call were retried
C12_Witness ==
    /\ Returned /\ check_method = "hybrid"
    /\ SemanticPass.ungrounded_sentences # <<>>
    /\ judge_calls = 1
    /\ judge_attempt >= 1
    /\ "llm_verdict" \in DOMAIN result

\* the verdict the judge call of this hybrid call came back with
JudgeVerdict == result.llm_verdict

\* the hybrid method has returned after its judge call came back with a verdict
HybridJudged ==
    Returned /\ check_method = "hybrid" /\ "llm_verdict" \in DOMAIN result

\* the judge supports the answer with confidence >= 0.7
JudgeSupports ==
    JudgeVerdict.verdict = "SUPPORTED" /\ JudgeVerdict.confidence >= 700

\* C13: when the judge supports the answer with confidence >= 0.7, hybrid
\* returns is_grounded true, the judge's confidence, no issue, no ungrounded
\* sentence, and every sentence of the semantic pass's two lists as grounded,
\* so that grounded_count = total_sentences.
C13_JudgeOverride ==
    (HybridJudged /\ JudgeSupports) =>
        /\ result.is_grounded
        /\ result.confidence = JudgeVerdict.confidence
        /\ result.issues = <<>>
        /\ result.ungrounded_sentences = <<>> /\ result.ungrounded_count = 0
        /\ \A x \in Range(answer) :
              Count(result.grounded_sentences, x)
                 = Count(SemanticPass.grounded_sentences, x)
                      + Count(SemanticPass.ungrounded_sentences, x)
        /\ Len(result.grounded_sentences) =
              Len(SemanticPass.grounded_sentences) + Len(SemanticPass.ungrounded_sentences)
        /\ result.grounded_count = Len(result.grounded_sentences)
        /\ result.grounded_count = result.total_sentences

\* the judge overrides a semantic pass that had grounded one sentence and left
\* two ungrounded
C13_Witness ==
    /\ HybridJudged /\ JudgeSupports
    /\ Len(SemanticPass.grounded_sentences) = 1
    /\ Len(SemanticPass.ungrounded_sentences) = 2
    /\ result.grounded_count = 3

\* the hybrid result keeps the partition of the semantic pass, tightens the
\* confidence to the lower of the two, and is not grounded
KeepsSemanticVerdict ==
    /\ result.grounded_sentences = SemanticPass.grounded_sentences
    /\ result.ungrounded_sentences = SemanticPass.ungrounded_sentences
    /\ result.confidence = Min({SemanticPass.confidence, JudgeVerdict.confidence})
    /\ result.is_grounded <=> (result.confidence >= 700 /\ result.ungrounded_count = 0)
    /\ ~result.is_grounded

\* C14 as claimed: when the judge does not support the answer with confidence
\* >= 0.7, hybrid keeps the semantic partition, returns the lower of the two
\* confidences, is not grounded, and has the judge's reason appended to the
\* issues.
C14_JudgeConfirms ==
    (HybridJudged /\ ~JudgeSupports) =>
        /\ KeepsSemanticVerdict
        /\ result.issues = Append(SemanticPass.issues, "LLM confirms")

\* C14 amended: as claimed, but the reason is appended only when it is not
\* empty; after a verdict without a reason the issues are the semantic pass's.
C14_JudgeConfirmsReasonIfAny ==
    (HybridJudged /\ ~JudgeSupports) =>
        /\ KeepsSemanticVerdict
        /\ JudgeVerdict.reason # "" =>
              result.issues = Append(SemanticPass.issues, "LLM confirms")
        /\ JudgeVerdict.reason = "" => result.issues = SemanticPass.issues

\* the judge supports the answer, but with a confidence below 0.7 and below
\* the semantic pass's, and gives a reason
C14_Witness ==
    /\ HybridJudged
    /\ JudgeVerdict.verdict = "SUPPORTED" /\ JudgeVerdict.reason # ""
    /\ JudgeVerdict.confidence = 400
    /\ SemanticPass.confidence = 667
    /\ result.confidence = 400
    /\ Len(result.issues) = 2

\* the four strategies
Strategies == {"keyword", "semantic", "llm", "hybrid"}

\* C15: for a method name that is none of the four strategies the call
\* raises: it returns no result and calls no judge.
C15_UnknownMethodRaises ==
    (check_method \in GroundMethods \ Strategies /\ hpc # "call") =>
        /\ hpc = "raised"
        /\ result = NoGrounding
        /\ judge_calls = 0

\* C16: the judge-delegated method returns is_grounded exactly for a verdict
\* SUPPORTED with confidence >= 0.7; all sentences are grounded when the
\* verdict is SUPPORTED and all are ungrounded otherwise; a blank answer
\* returns not grounded with confidence 0 and the judge is not called.
C16_JudgeAllOrNothing ==
    check_method = "llm" =>
        /\ answer_blank => (judge_calls = 0 /\ hpc \in {"call", "done"})
        /\ (Returned /\ answer_blank) =>
              /\ ~result.is_grounded /\ result.confidence = 0
              /\ result.grounded_sentences = <<>> /\ result.ungrounded_sentences = <<>>
        /\ (Returned /\ ~answer_blank) =>
              /\ judge_calls = 1
              /\ result.is_grounded <=>
                    (JudgeVerdict.verdict = "SUPPORTED" /\ JudgeVerdict.confidence >= 700)
              /\ IF JudgeVerdict.verdict = "SUPPORTED"
                 THEN result.grounded_sentences = answer /\ result.ungrounded_sentences = <<>>
                 ELSE result.grounded_sentences = <<>> /\ result.ungrounded_sentences = answer

\* supported below 0.7: every sentence is listed as grounded, the answer is not
C16_Witness ==
    /\ Returned /\ check_method = "llm" /\ ~answer_blank
    /\ JudgeVerdict.verdict = "SUPPORTED" /\ JudgeVerdict.confidence = 400
    /\ Len(answer) = 2 /\ result.grounded_sentences = answer
    /\ ~result.is_grounded

\* every request _call_llm_judge sent has failed
AllFailed == \A k \in 1..Len(judge_outcomes) : judge_outcomes[k] = "failed"

\* _call_llm_judge was called with a configuration and has returned
JudgeReturned == Returned /\ judge_calls = 1 /\ judge_ready

\* C26: _call_llm_judge sends at most max_retries requests and stops at the
\* first one that yields a verdict; after the k-th failure it waits
\* retry_delay * k before the next attempt and does not wait after the last
\* attempt; when every attempt has failed, or max_retries is 0, it returns the
\* verdict UNKNOWN with confidence 0.5 and does not raise
C26_BoundedRetriesLinearBackoff ==
    /\ Len(judge_outcomes) <= max_retries
    /\ \A k \in 1..(Len(judge_outcomes) - 1) : judge_outcomes[k] = "failed"
    /\ sleeps = [k \in 1..Len(sleeps) |-> k]
    /\ hpc = "judge" => (AllFailed /\ Len(sleeps) = Len(judge_outcomes))
    /\ (hpc # "judge" /\ judge_outcomes # <<>>) => Len(sleeps) = Len(judge_outcomes) - 1
    /\ (judge_calls = 1 /\ judge_ready) => hpc # "raised"
    /\ (JudgeReturned /\ AllFailed) =>
          /\ Len(judge_outcomes) = max_retries
          /\ result.llm_verdict.verdict = "UNKNOWN"
          /\ result.llm_verdict.confidence = 500

\* three attempts out of three have failed: waits of retry_delay and of
\* 2 * retry_delay in between, none after the third, and the verdict is UNKNOWN
C26_Witness ==
    /\ JudgeReturned
    /\ max_retries = 3
    /\ judge_outcomes = <<"failed", "failed", "failed">>
    /\ sleeps = <<1, 2>>
    /\ result.llm_verdict.verdict = "UNKNOWN"

\* what the text fallback of _parse_llm_verdict is to find in a reply: the
\* verdict and confidence of the keywords, and the confidence of the pattern
KeywordVerdict(reply) ==
    IF reply.not_supported THEN <<"NOT_SUPPORTED", 300>>
    ELSE IF reply.supported THEN <<"SUPPORTED", 800>>
    ELSE <<"UNKNOWN", 500>>

PatternFound(reply) == reply.conf_match \notin {"none", "unparsable"}

\* C27: a reply of the judge model, well-formed or not, is never a failure:
\* the request that received a reply ends the loop with a verdict, so that no
\* reply leads to another request; and the text fallback gives NOT_SUPPORTED
\* with 0.3 on a not-supported keyword, else SUPPORTED with 0.8 on the
\* supported keyword, else UNKNOWN with 0.5, the confidence being replaced by
\* the number the pattern finds, clamped to [0, 1]
C27_MalformedReplyNeverFails ==
    /\ last_reply # "none" =>
          /\ hpc # "judge"
          /\ judge_outcomes[Len(judge_outcomes)] = "verdict"
    /\ \A reply \in TextReplies :
          \E parsed \in {parse_llm_verdict(reply)} :
             /\ ~parsed.raised
             /\ parsed.verdict.verdict = KeywordVerdict(reply)[1]
             /\ parsed.verdict.confidence \in 0..1000
             /\ ~PatternFound(reply) =>
                   parsed.verdict.confidence = KeywordVerdict(reply)[2]
             /\ PatternFound(reply) =>
                   parsed.verdict.confidence = clamp(float_of(reply.conf_match))

-----------------------------------------------------------------------------
(* Properties of the pipeline's models (SpecConfig).                       *)

\* the judge has been sent a request and so has the answer generator
BothRequested == judge_client # NoClient /\ generator_client # NoClient

\* the config has no "judge" section and the environment no judge variable
NoJudgeConfigured == "judge" \notin DOMAIN config /\ DOMAIN environ = {}

\* C17: whenever the judge is called, the model and endpoint of its request
\* are not the model and endpoint the answers are generated with, whatever
\* config set_llm_config was given; stated for the configs the claim names,
\* those with no judge section and no judge variable in the environment
\* (VIOLATED: the judge's model and endpoint are then the "llm" section's,
\* which are the generator's)
C17_JudgeIsSeparateModel ==
    BothRequested /\ NoJudgeConfigured => judge_client # generator_client

-----------------------------------------------------------------------------
(* Properties of evaluate_document_quality (SpecQuality).                  *)

Evaluated == qpc = "evaluated"

\* the thresholds in force: the defaults, overridden by the argument
InForce == merged(thresholds)

\* the reported overall_confidence is a number below t
Below(t) == report.overall_confidence # None /\ report.overall_confidence < t

\* some pair of the report has the status "warn" or "fail"
AnyLowPair ==
    \E i \in 1..Len(report.pair_details) : report.pair_details[i].status \in {"warn", "fail"}

\* the band the rules give, tried in the order of the claim
BandByRules ==
    IF document.qa_pairs = <<>> THEN "needs_attention"
    ELSE IF Below(InForce.attention_confidence) THEN "needs_attention"
    ELSE IF AnyLowPair /\ Below(InForce.review_confidence) THEN "needs_attention"
    ELSE IF report.warnings # <<>> \/ Below(InForce.review_confidence) THEN "review"
    ELSE "excellent"

\* no pair is warn/fail, there are at least min_questions pairs, and the overall
\* confidence is below a review_confidence given in the thresholds argument
BelowOverriddenReview ==
    /\ ~AnyLowPair
    /\ Len(document.qa_pairs) >= InForce.min_questions
    /\ "review_confidence" \in DOMAIN thresholds
    /\ Below(InForce.review_confidence)

\* C18 as stated: the band is the one of the first matching rule; a document
\* without pairs gets the warning "No Q&A pairs available"; and a document with
\* no warn/fail pair, at least min_questions pairs and an overall confidence
\* below an overridden review_confidence is "review" (VIOLATED in its last
\* part: such a document whose stored overall confidence is below
\* attention_confidence is "needs_attention", by the second rule)
C18_BandPrecedence ==
    Evaluated =>
        /\ report.quality_band = BandByRules
        /\ document.qa_pairs = <<>> => NoPairsAvailable \in Range(report.warnings)
        /\ BelowOverriddenReview => report.quality_band = "review"

\* C18, amended: the band is the one of the first matching rule; a document
\* without pairs gets the warning "No Q&A pairs available"; a document with no
\* warn/fail pair, at least min_questions pairs and an overall confidence below
\* an overridden review_confidence, but not below attention_confidence, is
\* "review"
C18_BandPrecedenceAboveAttention ==
    Evaluated =>
        /\ report.quality_band = BandByRules
        /\ document.qa_pairs = <<>> => NoPairsAvailable \in Range(report.warnings)
        /\ BelowOverriddenReview /\ ~Below(InForce.attention_confidence)
              => report.quality_band = "review"

\* three pairs without a note, a stored overall confidence between attention
\* and the overridden review_confidence: the band is "review"
C18_Witness ==
    /\ Evaluated
    /\ BelowOverriddenReview
    /\ ~Below(InForce.attention_confidence)
    /\ report.warnings = <<>>
    /\ report.quality_band = "review"

\* grading_summary.overall_confidence of the document, None if it has none
Stored == get(get(document, "grading_summary", <<>>), "overall_confidence", None)

\* the indices of the pairs whose confidence is present
Present == {i \in 1..Len(report.pair_details) : report.pair_details[i].confidence # None}

RECURSIVE Total(_)
Total(I) ==
    IF I = {} THEN 0
    ELSE LET i == CHOOSE j \in I : TRUE
         IN  report.pair_details[i].confidence + Total(I \ {i})

\* the arithmetic mean of the confidences that are present, in thousandths
MeanOfPresent == Total(Present) \div Cardinality(Present)

\* quick_test.py, test case 1: stored 0.9, pairs of confidence 0.9, 0.6, 0.4
ExamplePair(c) == [answer_length |-> 100, grading |-> [confidence |-> c, is_grounded |-> TRUE]]

ExampleDocument ==
    [qa_pairs |-> <<ExamplePair(900), ExamplePair(600), ExamplePair(400)>>,
     grading_summary |-> [overall_confidence |-> 900]]

\* C19: the reported overall_confidence is the stored one when it is present
\* and no pair is warn/fail; when it is absent or some pair is warn/fail, it is
\* the mean of the pair confidences that are present (with none present there
\* is no mean, and it is the stored one); the example document at the default
\* thresholds gets the mean 0.633 and the band "needs_attention"; it is null
\* only when there is no stored value and no pair confidence
C19_OverallConfidence ==
    Evaluated =>
        /\ (Stored # None /\ ~AnyLowPair) => report.overall_confidence = Stored
        /\ ((Stored = None \/ AnyLowPair) /\ Present # {})
              => report.overall_confidence = MeanOfPresent
        /\ Present = {} => report.overall_confidence = Stored
        /\ (document = ExampleDocument /\ thresholds = <<>>)
              => report.overall_confidence = 633 /\ report.quality_band = "needs_attention"
        /\ report.overall_confidence = None <=> (Stored = None /\ Present = {})

\* the example document has been evaluated at the default thresholds
C19_Witness ==
    /\ Evaluated
    /\ document = ExampleDocument
    /\ thresholds = <<>>
    /\ Stored = 900
    /\ AnyLowPair
    /\ report.overall_confidence = MeanOfPresent

\* what the claim reads of pair i of the document
Ungrounded(i) ==
    LET grading == get(document.qa_pairs[i], "grading", <<>>)
    IN  "is_grounded" \in DOMAIN grading /\ grading.is_grounded = FALSE

Missing(i) == get(get(document.qa_pairs[i], "grading", <<>>), "confidence", None) = None

LowConfidence(i) ==
    /\ ~Missing(i)
    /\ document.qa_pairs[i].grading.confidence < InForce.low_confidence

Short(i) == document.qa_pairs[i].answer_length < InForce.short_answer_chars

Noted(i, note) == note \in Range(report.pair_details[i].notes)

\* C20: the status of a pair is "fail" exactly when its grading says
\* is_grounded is false; otherwise it is "warn" exactly when the confidence is
\* missing or below low_confidence or the trimmed answer is shorter than
\* short_answer_chars, and "ok" otherwise; every condition that holds adds its
\* note, so the status is "ok" exactly when there is no note
C20_PairStatus ==
    Evaluated =>
        /\ Len(report.pair_details) = Len(document.qa_pairs)
        /\ \A i \in 1..Len(document.qa_pairs) :
              LET detail == report.pair_details[i]
              IN  /\ detail.status = "fail" <=> Ungrounded(i)
                  /\ ~Ungrounded(i) =>
                        /\ detail.status = "warn" <=> (Missing(i) \/ LowConfidence(i) \/ Short(i))
                        /\ detail.status = "ok" <=> ~(Missing(i) \/ LowConfidence(i) \/ Short(i))
                  /\ Noted(i, "grading flagged as ungrounded") <=> Ungrounded(i)
                  /\ Noted(i, "missing confidence") <=> Missing(i)
                  /\ Noted(i, "confidence below low_confidence") <=> LowConfidence(i)
                  /\ Noted(i, "answer very short") <=> Short(i)
                  /\ detail.status = "ok" <=> detail.notes = <<>>

\* an ungrounded pair with a short answer has been reported as "fail"
C20_Witness ==
    /\ Evaluated
    /\ \E i \in 1..Len(document.qa_pairs) :
          /\ Ungrounded(i)
          /\ Short(i)
          /\ report.pair_details[i].status = "fail"
          /\ Noted(i, "answer very short")

-----------------------------------------------------------------------------
(* Properties of summarize_documents (SpecSummary).                        *)

Summarized == spc = "summarized"

\* how many reports have a band of the set B, or none if B holds "(missing)"
Reported(B) ==
    Cardinality({i \in 1..Len(reports) : get(reports[i], "quality_band", "(missing)") \in B})

\* C21: total_documents is the number of reports; the breakdown has exactly
\* the three bands and its counts sum to total_documents; a report without a
\* band or with a band of another name is counted under "review" (VIOLATED: a
\* band of another name gets a key and a count of its own)
C21_SummaryOverThreeBands ==
    Summarized =>
        /\ summary.total_documents = Len(reports)
        /\ DOMAIN summary.quality_breakdown = Bands
        /\ summary.quality_breakdown.excellent + summary.quality_breakdown.review
              + summary.quality_breakdown.needs_attention = summary.total_documents
        /\ summary.quality_breakdown.excellent = Reported({"excellent"})
        /\ summary.quality_breakdown.needs_attention = Reported({"needs_attention"})
        /\ summary.quality_breakdown.review = Reported({"review", "(missing)", "poor"})

-----------------------------------------------------------------------------
(* Properties of batch grading (SpecBatch).                                *)

BatchOver == bpc \in {"returned", "exited"}

\* pair p of document d has a check in the graded results the caller holds
GradedPair(d, p) ==
    \E k \in 1..Len(graded_results) :
        graded_results[k].document = d /\ p \in Range(graded_results[k].checks)

\* C22: when check_hallucination raises for a pair, the batch is not aborted,
\* every pair for which it returns is still graded and returned, and the
\* failure is captured as a warning (VIOLATED: grade_qa_results catches
\* nothing; the script exits with nothing graded, and the pipeline drops the
\* other pairs of the document)
C22_BatchContinuesPastFailure ==
    BatchOver =>
        /\ bpc = "returned"
        /\ \A d \in 1..Len(qa_results) : \A p \in 1..Len(qa_results[d]) :
              /\ qa_results[d][p] = "ok" => GradedPair(d, p)
              /\ qa_results[d][p] = "raises" => d \in Range(grading_warnings)

-----------------------------------------------------------------------------
(* Properties of the functions on a pair of questions (SpecPair).          *)

PairCompared == ppc = "compared"

\* the text without its punctuation: the characters that are neither
\* alphanumeric nor spaces
Unpunctuated(text) == SelectSeq(text, LAMBDA c : isalnum(c) \/ isspace(c))

\* the two questions differ at most in the presence or position of
\* punctuation, none of it an apostrophe (which may belong to a contraction)
DifferInPunctuationOnly ==
    /\ Unpunctuated(question_a) = Unpunctuated(question_b)
    /\ "'" \notin Range(question_a) \cup Range(question_b)

\* C23: questions that differ only in letter case, or only in punctuation (a
\* mark standing alone between spaces included), normalize equally; "What's X?"
\* and "what is x" normalize equally; a normalized form normalizes to itself
\* (VIOLATED: the whitespace is collapsed before the punctuation is removed, so
\* "x , y" normalizes to "x  y" with two spaces, which is neither what "x  y"
\* normalizes to nor its own normalized form)
C23_NormalizeInsensitive ==
    PairCompared =>
        /\ lower(question_a) = lower(question_b) => compared.normalized1 = compared.normalized2
        /\ DifferInPunctuationOnly => compared.normalized1 = compared.normalized2
        /\ (question_a = Q_WhatsX /\ question_b = Q_whatisx)
              => compared.normalized1 = compared.normalized2
        /\ compared.renormalized1 = compared.normalized1

\* the jaccard similarity of the pair reaches the threshold
JaccardMeets == AtLeast(compared.jaccard, similarity_threshold)

NormalizedEqual == compared.normalized1 = compared.normalized2

\* C24: with the method "exact", the pair is a duplicate exactly when the
\* normalized forms are equal, whatever the token overlap and the threshold
\* (VIOLATED: the method "exact" falls through to the jaccard comparison)
C24_ExactIsNormalizationEquality ==
    (PairCompared /\ method = "exact") => (compared.duplicate <=> NormalizedEqual)

\* the similarity is the fraction 1 resp. 0
IsOne(sim) == sim.num = sim.den /\ sim.den > 0

IsZero(sim) == sim.num = 0 /\ sim.den > 0

\* C25: the jaccard similarity is the same in both orders, is 1 for a text
\* with itself and for two texts without a token, is 0 when exactly one text
\* has no token, and is always between 0 and 1
C25_JaccardSymmetricBounded ==
    PairCompared =>
        /\ compared.jaccard = compared.jaccard_swapped
        /\ IsOne(compared.jaccard_self)
        /\ (words(question_a) = {} /\ words(question_b) = {}) => IsOne(compared.jaccard)
        /\ (words(question_a) = {}) # (words(question_b) = {}) => IsZero(compared.jaccard)
        /\ compared.jaccard.den > 0
        /\ 0 <= compared.jaccard.num /\ compared.jaccard.num <= compared.jaccard.den

\* two questions that share some, not all, of their words have been compared
C25_Witness ==
    /\ PairCompared
    /\ words(question_a) # words(question_b)
    /\ Cardinality(words(question_a)) # Cardinality(words(question_b))
    /\ compared.jaccard.num > 0
    /\ compared.jaccard.num < compared.jaccard.den
    /\ compared.jaccard = compared.jaccard_swapped

\* calculate_semantic_similarity returned the negative sentinel
Unavailable == compared.semantic.num < 0

\* C29: when the semantic similarity is unavailable, the methods "semantic" and
\* "both" decide as the method "jaccard" does: duplicate exactly when
\* exact_match holds with equal normalized forms or the jaccard similarity
\* reaches the threshold; when it is available, "both" is a duplicate exactly
\* when the semantic or the jaccard similarity reaches the threshold
C29_SentinelFallsBackToJaccard ==
    PairCompared =>
        /\ (Unavailable /\ method \in {"semantic", "both"}) =>
              /\ compared.duplicate = compared.jaccard_duplicate
              /\ compared.duplicate <=> ((exact_arg /\ NormalizedEqual) \/ JaccardMeets)
        /\ (~Unavailable /\ method = "both") =>
              (compared.duplicate <=>
                  (AtLeast(compared.semantic, similarity_threshold) \/ JaccardMeets))

\* the sentinel came back for the method "semantic" on a pair whose jaccard
\* similarity alone makes it a duplicate
C29_Witness ==
    /\ PairCompared
    /\ Unavailable
    /\ method = "semantic"
    /\ ~NormalizedEqual
    /\ JaccardMeets
    /\ compared.duplicate


-----------------------------------------------------------------------------
(* Properties of the embedding models (SpecCache).                         *)

\* the number of times a model of the name was constructed
Loads(name) == Cardinality({i \in 1..Len(loaded) : loaded[i] = name})

\* C28: across the calls of one process that use sentence embeddings, the
\* model of each name is loaded at most once; a call encodes with the cached
\* instance of its model, and a cached entry stays the instance that the
\* first load of its name made
C28_ModelLoadedOncePerName ==
    /\ \A name \in ModelNames : Loads(name) <= 1
    /\ model # 0 => \E name \in DOMAIN model_cache : model_cache[name] = model
    /\ \A name \in DOMAIN model_cache :
          /\ loaded[model_cache[name]] = name
          /\ \A i \in 1..(model_cache[name] - 1) : loaded[i] # name


-----------------------------------------------------------------------------
(* Properties of the sentence segmenter (SpecSplit).                       *)

Segmented == tpc = "split"

\* the places of a sentence that hold text of the input
TextPlaces(sentence) ==
    {k \in 1..Len(sentence) : sentence[k].at # 0 /\ sentence[k].c \notin Spaces}

\* the sentence holds text from both sides of a newline of the input
SpansNewline(sentence) ==
    \E a, b \in TextPlaces(sentence) :
       \E k \in (sentence[a].at + 1)..(sentence[b].at - 1) : input_text[k] = "\n"

\* the text of the sentences stands in the order it has in the input
InInputOrder ==
    \A i, j \in 1..Len(sentences_out) :
       \A a \in TextPlaces(sentences_out[i]), b \in TextPlaces(sentences_out[j]) :
          (i < j \/ (i = j /\ a < b)) => sentences_out[i][a].at < sentences_out[j][b].at

Trimmed(sentence) == Head(sentence).c \notin Spaces /\ sentence[Len(sentence)].c \notin Spaces

Blank(text) == \A k \in 1..Len(text) : text[k] \in Spaces

\* C30: every newline of the input is a sentence boundary: no sentence that
\* _split_into_sentences returns holds text from both sides of a newline, also
\* when the next line begins with a numbered-list marker; the sentences are
\* in input order, each is trimmed and longer than 2 characters, and an empty
\* or whitespace-only input gives no sentence
C30_NewlineIsSentenceBoundary ==
    Segmented =>
       /\ \A i \in 1..Len(sentences_out) :
             /\ ~SpansNewline(sentences_out[i])
             /\ Len(sentences_out[i]) > 2
             /\ Trimmed(sentences_out[i])
       /\ InInputOrder
       /\ Blank(input_text) => sentences_out = <<>>

====
